---- MODULE Spec2Model ----
(***************************************************************************)
(* TypedFastBitSet.js: the dense bitset (TypedFastBitSet) and the adaptive  *)
(* bitset (SparseTypedFastBitSet) as state machines over their buffers.     *)
(*                                                                         *)
(* A Uint32Array is a function over 0..length-1.  While an adaptive bitset  *)
(* is in Array mode a slot holds a number; a word of a packed buffer is the *)
(* set of its set bit positions (a subset of 0..31), which is the 32-bit    *)
(* pattern itself and spares TLC integers beyond 2^31.                      *)
(*                                                                         *)
(* a and b are two bitsets and r the bitset the last new_ operation built;  *)
(* last is the last call and pre the two bitsets before it; shared says     *)
(* that b's buffer is the very Uint32Array a holds; it is the traversal     *)
(* (forEach or iterator) under way on a.                                    *)
(***************************************************************************)
EXTENDS Integers, Sequences, FiniteSets, TLC

VARIABLES a, b, r, last, pre, steps, shared, it

vars == <<a, b, r, last, pre, steps, shared, it>>

-----------------------------------------------------------------------------
(* Program constants *)

WordBits == 32
DefaultWords == 8
ArrayLimit == 256
SparseLimit == 1024

\* what reading a typed array outside 0..length-1 gives (undefined)
Undef == -2

-----------------------------------------------------------------------------
(* Typed arrays *)

Length(arr) == Cardinality(DOMAIN arr)

\* new Uint32Array(n) used as a list of values
NewArray(n) == [k \in 0..(n - 1) |-> 0]

\* a typed array over the buffer of arr: same elements, same storage
Uint32ArrayOver(arr) == [elements |-> arr, storage |-> "same"]

\* new Uint32Array(arr): a typed array with its own storage holding a copy of
\* the elements of arr
Uint32ArrayOf(arr) == [elements |-> arr, storage |-> "own"]

\* new Uint32Array(n) used as packed words
NewWords(n) == [k \in 0..(n - 1) |-> {}]

\* arr[i] of a list of values
Rd(arr, i) == IF i \in DOMAIN arr THEN arr[i] ELSE Undef

\* arr[i] = v on a list of values: ignored outside the array, undefined stored as 0
Wr(arr, i, v) ==
    IF i \in DOMAIN arr THEN [arr EXCEPT ![i] = IF v = Undef THEN 0 ELSE v] ELSE arr

\* words[k] as an operand of & | ^ : undefined counts as 0
RdW(words, k) == IF k \in DOMAIN words THEN words[k] ELSE {}

\* words[k] = w : ignored outside the array
WrW(words, k, w) == IF k \in DOMAIN words THEN [words EXCEPT ![k] = w] ELSE words

\* arr.indexOf(v): the first slot holding v, -1 when there is none
IndexOf(arr, v) ==
    IF \E k \in DOMAIN arr : arr[k] = v
    THEN CHOOSE k \in DOMAIN arr : arr[k] = v /\ \A j \in DOMAIN arr : j < k => arr[j] # v
    ELSE -1

\* newData.set(array): the old slots copied into the longer buffer
SetInto(newData, array) ==
    [k \in DOMAIN newData |-> IF k \in DOMAIN array THEN array[k] ELSE newData[k]]

\* arr.slice(0, n)
Slice(arr, n) == [k \in 0..(n - 1) |-> arr[k]]

\* x > y, x < y, x >= y of JavaScript: false when either side is undefined
Gt(x, y) == x # Undef /\ y # Undef /\ x > y
Lt(x, y) == x # Undef /\ y # Undef /\ x < y
Ge(x, y) == x # Undef /\ y # Undef /\ x >= y

\* Math.max(x, y): NaN (shown as Undef) when either side is undefined
Max2(x, y) == IF x = Undef \/ y = Undef THEN Undef ELSE IF x > y THEN x ELSE y

\* Math.min on numbers
Min2(x, y) == IF x < y THEN x ELSE y

-----------------------------------------------------------------------------
(* 32-bit word arithmetic *)

\* index >>> 5 (undefined >>> 5 is 0)
Shr5(index) == IF index = Undef THEN 0 ELSE index \div WordBits

\* x >> 5 on a possibly negative number
Sar5(x) == x \div WordBits

\* the shift count of  x << n,  x >>> n : n & 31 (0 for undefined)
ShiftCount(n) == IF n = Undef THEN 0 ELSE n % WordBits

\* 1 << index
Bit(index) == {ShiftCount(index)}

\* (index + 32) >>> 5 ; NaN >>> 5 is 0
CountFor(index) == IF index = Undef THEN 0 ELSE (index + WordBits) \div WordBits

\* ~0
AllOnes == 0..(WordBits - 1)

\* ~0 << start
OnesFrom(start) == {bit \in AllOnes : bit >= ShiftCount(start)}

\* ~0 >>> -end
OnesBelow(end) == {bit \in AllOnes : bit < WordBits - ShiftCount(0 - end)}

\* the Uint32 pattern of a number below 2^31, as a word
AsWord(v) == {bit \in 0..30 : (v \div (2 ^ bit)) % 2 = 1}

\* hammingWeight(w)
hammingWeight(w) == Cardinality(w)

-----------------------------------------------------------------------------
(* SparseTypedFastBitSet: [kind |-> "sparse", arraySize, data]              *)
(* TypedFastBitSet:       [kind |-> "dense", words]                         *)

NewSparse == [kind |-> "sparse", arraySize |-> 0, data |-> NewArray(DefaultWords)]
NewTyped == [kind |-> "dense", words |-> NewWords(DefaultWords)]

IsArray(s) == s.kind = "sparse" /\ s.arraySize # -1

\* the live slots of an Array-mode buffer, as the loops  i < this.arraySize  visit them
Live(s) == 0..(s.arraySize - 1)

\* newWords[add >>> 5] |= 1 << add  for every live slot of array
SetBits(newWords, array, arraySize) ==
    [k \in DOMAIN newWords |->
        newWords[k] \cup UNION {Bit(Rd(array, i)) : i \in {j \in 0..(arraySize - 1) : Shr5(Rd(array, j)) = k}}]

toBitset(s) ==
    LET array == s.data
        count == CountFor(Rd(array, 0))
    IN SetBits(NewWords(2 * count), array, s.arraySize)


\* the slot of the largest value among slots first..n-1, the first one on a tie:
\*   let largest = array[first]; let largestIndex = first;
\*   for (i = first + 1; i < n; i++) if (array[i] > largest) { ... }
RECURSIVE ScanLargest(_, _, _, _)
ScanLargest(array, i, n, largestIndex) ==
    IF i >= n THEN largestIndex
    ELSE LET next == IF Gt(Rd(array, i), Rd(array, largestIndex)) THEN i ELSE largestIndex
         IN ScanLargest(array, i + 1, n, next)

\* const current = array[0]; array[0] = array[largestIndex]; array[largestIndex] = current
SwapToFront(array, largestIndex) ==
    Wr(Wr(array, 0, Rd(array, largestIndex)), largestIndex, Rd(array, 0))

\* array[0] = array[largestIndex]; array[largestIndex] = array[--this.arraySize]
\* with largestIndex found from slot 1 (remove and flip of the cached maximum)
DropFront(array, n) ==
    LET largestIndex == ScanLargest(array, 2, n, 1)
        array1 == Wr(array, 0, Rd(array, largestIndex))
    IN Wr(array1, largestIndex, Rd(array1, n - 1))

\* resize(index, capacity) never throws on a number; with index undefined the
\* Bitset branch allocates new Uint32Array(0) and newwords.set(words) throws
\* a RangeError when words is not empty
Sparse_resizeThrows(s, index) ==
    /\ s.arraySize = -1
    /\ ~Gt(Length(s.data) * WordBits, index)
    /\ 2 * CountFor(index) < Length(s.data)

\* the object after resize(index, capacity); the Type it returns is BITSET
\* exactly when arraySize is -1 afterwards
Sparse_resize(s, index, capacity) ==
    IF s.arraySize = -1
    THEN LET words == s.data
         IN IF Gt(Length(words) * WordBits, index) THEN s
            ELSE [s EXCEPT !.data = SetInto(NewWords(2 * CountFor(index)), words)]
    ELSE LET array == s.data
             grown == [s EXCEPT !.data = SetInto(NewArray(2 * (Length(array) + capacity)), array)]
         IN IF s.arraySize + capacity < Length(array) THEN s
            ELSE IF Length(array) + capacity < ArrayLimit THEN grown
            ELSE LET count == CountFor(Max2(Rd(array, 0), index))
                 IN IF /\ count > Length(array) + capacity
                       /\ 2 * (Length(array) + capacity) < SparseLimit
                    THEN grown
                    ELSE [s EXCEPT !.arraySize = -1,
                                   !.data = SetBits(NewWords(2 * count), array, s.arraySize)]

\* the Array branch shared by add and checkedAdd, on the resized object t
\* a lookup that takes any slot of the buffer for a live one
ArrayInsertAnySlot(t, index) ==
    LET array == t.data
        n == t.arraySize
    IN IF IndexOf(array, index) = -1 THEN [t EXCEPT !.data = Wr(array, n, index), !.arraySize = n + 1]
       ELSE t

ArrayInsert(t, index) ==
    LET array == t.data
        n == t.arraySize
        offset == IndexOf(array, index)
        biggest == Rd(array, 0)
    IN IF n = 0 THEN [t EXCEPT !.data = Wr(array, 0, index), !.arraySize = 1]
       ELSE IF offset = -1 \/ offset >= n
       THEN IF Gt(index, biggest)
            THEN [t EXCEPT !.data = Wr(Wr(array, 0, index), n, biggest), !.arraySize = n + 1]
            ELSE [t EXCEPT !.data = Wr(array, n, index), !.arraySize = n + 1]
       ELSE t

Sparse_add(s, index) ==
    LET t == Sparse_resize(s, index, 0)
    IN IF t.arraySize # -1 THEN ArrayInsert(t, index)
       ELSE [t EXCEPT !.data = WrW(t.data, Shr5(index), RdW(t.data, Shr5(index)) \cup Bit(index))]

\* [obj, ret]: the object afterwards and the value returned
Sparse_checkedAdd(s, index) ==
    LET t == Sparse_resize(s, index, 0)
        word == RdW(t.data, Shr5(index))
        newword == word \cup Bit(index)
    IN IF t.arraySize # -1
       THEN LET u == ArrayInsert(t, index)
            IN [obj |-> u, ret |-> IF u.arraySize = t.arraySize THEN 0 ELSE 1]
       ELSE [obj |-> [t EXCEPT !.data = WrW(t.data, Shr5(index), newword)],
             ret |-> IF newword = word THEN 0 ELSE 1]

\* the buffer of values read as packed words, once arraySize has become -1
\* without a conversion
Reinterpret(array) == [k \in DOMAIN array |-> AsWord(array[k])]

Sparse_flip(s, index) ==
    LET t == Sparse_resize(s, index, 0)
        array == t.data
        n == t.arraySize
        arrayIndex == IndexOf(array, index)
    IN IF n # -1
       THEN IF arrayIndex = -1
            THEN IF n > 0 /\ Gt(index, Rd(array, 0))
                 THEN [t EXCEPT !.data = Wr(Wr(array, n, Rd(array, 0)), 0, index),
                                !.arraySize = n + 1]
                 ELSE [t EXCEPT !.data = Wr(array, n, index), !.arraySize = n + 1]
            ELSE IF arrayIndex = 0 /\ n > 1
                 THEN [t EXCEPT !.data = DropFront(array, n), !.arraySize = n - 1]
                 ELSE LET array1 == Wr(array, arrayIndex, Rd(array, n - 1))
                      IN [t EXCEPT !.data = IF n - 1 = -1 THEN Reinterpret(array1) ELSE array1,
                                   !.arraySize = n - 1]
       ELSE LET word == RdW(t.data, Shr5(index))
            IN [t EXCEPT !.data = WrW(t.data, Shr5(index),
                                      (word \ Bit(index)) \cup (Bit(index) \ word))]

Sparse_clear(s) == NewSparse

Sparse_remove(s, index) ==
    LET t == Sparse_resize(s, index, 0)
        array == t.data
        n == t.arraySize
        arrayIndex == IndexOf(array, index)
    IN IF n # -1
       THEN IF arrayIndex # -1 /\ arrayIndex < n
            THEN IF arrayIndex = n - 1 THEN [t EXCEPT !.arraySize = n - 1]
                 ELSE IF arrayIndex = 0 /\ n > 1
                 THEN [t EXCEPT !.data = DropFront(array, n), !.arraySize = n - 1]
                 ELSE [t EXCEPT !.data = Wr(array, arrayIndex, Rd(array, n - 1)),
                                !.arraySize = n - 1]
            ELSE t
       ELSE [t EXCEPT !.data = WrW(t.data, Shr5(index), RdW(t.data, Shr5(index)) \ Bit(index))]


\* for (; start < end; start++) { offset = array.indexOf(start);
\*   if (offset === -1 || offset >= this.arraySize) array[this.arraySize++] = start; }
\* as [data, arraySize]
RECURSIVE AddLoop(_, _, _, _)
AddLoop(array, n, start, end) ==
    IF start >= end THEN [data |-> array, arraySize |-> n]
    ELSE LET offset == IndexOf(array, start)
         IN IF offset = -1 \/ offset >= n
            THEN AddLoop(Wr(array, n, start), n + 1, start + 1, end)
            ELSE AddLoop(array, n, start + 1, end)

\* words[firstword .. endword] with the bits of [start, end) set (|=) or cleared (&= ~)
\* by the two boundary masks and the fill of the words between them
RangeWords(words, start, end, set) ==
    LET firstword == Sar5(start)
        endword == Sar5(end - 1)
        Put(k, mask) == IF set THEN RdW(words, k) \cup mask ELSE RdW(words, k) \ mask
    IN IF firstword = endword
       THEN WrW(words, firstword, Put(firstword, OnesFrom(start) \cap OnesBelow(end)))
       ELSE [k \in DOMAIN words |->
                IF k = firstword THEN Put(k, OnesFrom(start))
                ELSE IF k > firstword /\ k < endword THEN (IF set THEN AllOnes ELSE {})
                ELSE IF k = endword THEN Put(k, OnesBelow(end))
                ELSE words[k]]

Sparse_addRange(s, start, end) ==
    IF start >= end THEN s
    ELSE LET t == Sparse_resize(s, end, end - start - 1)
             array == t.data
             n == t.arraySize
             biggestAdd == end - 1
             offset == IndexOf(array, biggestAdd)
             biggest == Rd(array, 0)
             u == IF n = 0 THEN [data |-> Wr(array, 0, biggestAdd), arraySize |-> 1]
                  ELSE IF offset = -1 \/ offset >= n
                  THEN IF Gt(biggestAdd, biggest)
                       THEN [data |-> Wr(Wr(array, 0, biggestAdd), n, biggest), arraySize |-> n + 1]
                       ELSE [data |-> Wr(array, n, biggestAdd), arraySize |-> n + 1]
                  ELSE [data |-> array, arraySize |-> n]
             v == AddLoop(u.data, u.arraySize, start, end - 1)
         IN IF n # -1
            THEN [t EXCEPT !.data = v.data, !.arraySize = v.arraySize]
            ELSE [t EXCEPT !.data = RangeWords(t.data, start, end, TRUE)]

\* for (i = 0; i < this.arraySize; i++) if (array[i] >= start && array[i] < end) {
\*   if (i === 0) findBiggest = true; array[i--] = array[--this.arraySize]; }
\* as [data, arraySize, findBiggest]
RECURSIVE RemoveLoop(_, _, _, _, _, _)
RemoveLoop(array, n, i, findBiggest, start, end) ==
    IF i >= n THEN [data |-> array, arraySize |-> n, findBiggest |-> findBiggest]
    ELSE IF Ge(Rd(array, i), start) /\ Lt(Rd(array, i), end)
         THEN RemoveLoop(Wr(array, i, Rd(array, n - 1)), n - 1, i, findBiggest \/ i = 0, start, end)
         ELSE RemoveLoop(array, n, i + 1, findBiggest, start, end)

\* if (findBiggest && arraySize > 1) { scan from slot 0 and swap the largest to slot 0 }
\* leaving slot 0 as the removals left it
KeepFront(array, n, findBiggest) == array

Rebiggest(array, n, findBiggest) ==
    IF findBiggest /\ n > 1 THEN SwapToFront(array, ScanLargest(array, 1, n, 0)) ELSE array

Sparse_removeRange(s, start, end) ==
    IF start >= end THEN s
    ELSE IF s.arraySize # -1
    THEN LET v == RemoveLoop(s.data, s.arraySize, 0, FALSE, start, end)
         IN [s EXCEPT !.data = Rebiggest(v.data, v.arraySize, v.findBiggest),
                      !.arraySize = v.arraySize]
    ELSE LET words == s.data
             start1 == Min2(start, Length(words) * WordBits - 1)
             end1 == Min2(end, Length(words) * WordBits - 1)
         IN [s EXCEPT !.data = RangeWords(words, start1, end1, FALSE)]

\* (words[index >>> 5] & (1 << index)) !== 0
TestBit(words, index) == RdW(words, Shr5(index)) \cap Bit(index) # {}

Sparse_has(s, index) ==
    IF s.arraySize = -1 THEN TestBit(s.data, index)
    ELSE LET offset == IndexOf(s.data, index)
         IN offset # -1 /\ offset < s.arraySize

\* the values of the set bits of words:  (k << 5) + hammingWeight((t - 1) | 0)
BitValues(words) == UNION {{k * WordBits + bit : bit \in words[k]} : k \in DOMAIN words}

\* the sum of hammingWeight over the words
CountBits(words) == Cardinality(BitValues(words))

Sparse_size(s) == IF s.arraySize = -1 THEN CountBits(s.data) ELSE s.arraySize

\* the set bits listed word by word, lowest bit first: slot pos holds the value
\* that has pos smaller values before it
Ascending(values) ==
    [pos \in 0..(Cardinality(values) - 1) |->
        CHOOSE v \in values : Cardinality({u \in values : u < v}) = pos]

\* let nl = words.length; while (nl > 0 && words[nl - 1] === 0) nl--;
TrimmedLength(words) ==
    IF \E k \in DOMAIN words : words[k] # {}
    THEN 1 + CHOOSE k \in DOMAIN words : words[k] # {} /\ \A j \in DOMAIN words : j > k => words[j] = {}
    ELSE 0

\* trim() whose Bitset branch keeps the buffer whole:  this.data = words
Sparse_trimKeeping(s) ==
    LET size == Sparse_size(s)
    IN IF s.arraySize = -1
       THEN LET words == s.data
                nl == TrimmedLength(words)
                newArray == Ascending(BitValues(words))
                first == Rd(newArray, 0)
                newArray1 == Wr(newArray, 0, Rd(newArray, size - 1))
            IN IF size < nl
               THEN [s EXCEPT !.data = Wr(newArray1, size - 1, first), !.arraySize = size]
               ELSE s
       ELSE IF s.arraySize > 0 /\ Shr5(Rd(s.data, 0)) < size
            THEN [s EXCEPT !.data = SetBits(NewWords(CountFor(Rd(s.data, 0))), s.data, s.arraySize),
                           !.arraySize = -1]
            ELSE [s EXCEPT !.data = Slice(s.data, Min2(s.arraySize, Length(s.data)))]

Sparse_trim(s) ==
    LET size == Sparse_size(s)
    IN IF s.arraySize = -1
       THEN LET words == s.data
                nl == TrimmedLength(words)
                newArray == Ascending(BitValues(words))
                first == Rd(newArray, 0)
                newArray1 == Wr(newArray, 0, Rd(newArray, size - 1))
            IN IF size < nl
               THEN [s EXCEPT !.data = Wr(newArray1, size - 1, first), !.arraySize = size]
               ELSE [s EXCEPT !.data = Slice(words, nl)]
       ELSE IF s.arraySize > 0 /\ Shr5(Rd(s.data, 0)) < size
            THEN [s EXCEPT !.data = SetBits(NewWords(CountFor(Rd(s.data, 0))), s.data, s.arraySize),
                           !.arraySize = -1]
            ELSE [s EXCEPT !.data = Slice(s.data, Min2(s.arraySize, Length(s.data)))]

\* get words(): converts an Array-mode set in place
Sparse_words(s) ==
    IF s.arraySize # -1 THEN [s EXCEPT !.data = toBitset(s), !.arraySize = -1] ELSE s

Sparse_clone(s) ==
    [kind |-> "sparse", arraySize |-> s.arraySize, data |-> Uint32ArrayOf(s.data).elements]


-----------------------------------------------------------------------------
(* TypedFastBitSet *)

Typed_resize(t, index) ==
    LET words == t.words
        count == CountFor(index)
    IN IF Length(words) * WordBits > index THEN t
       ELSE [t EXCEPT !.words = SetInto(NewWords(2 * count), words)]

Typed_add(t, index) ==
    LET u == Typed_resize(t, index)
    IN [u EXCEPT !.words = WrW(u.words, Shr5(index), RdW(u.words, Shr5(index)) \cup Bit(index))]

Typed_flip(t, index) ==
    LET u == Typed_resize(t, index)
        word == RdW(u.words, Shr5(index))
    IN [u EXCEPT !.words = WrW(u.words, Shr5(index), (word \ Bit(index)) \cup (Bit(index) \ word))]

Typed_clear(t) == NewTyped

Typed_remove(t, index) ==
    LET u == Typed_resize(t, index)
    IN [u EXCEPT !.words = WrW(u.words, Shr5(index), RdW(u.words, Shr5(index)) \ Bit(index))]

Typed_addRange(t, start, end) ==
    IF start >= end THEN t
    ELSE LET u == IF Length(t.words) * WordBits <= end THEN Typed_resize(t, end) ELSE t
         IN [u EXCEPT !.words = RangeWords(u.words, start, end, TRUE)]

Typed_removeRange(t, start, end) ==
    LET words == t.words
        start1 == Min2(start, Length(words) * WordBits - 1)
        end1 == Min2(end, Length(words) * WordBits - 1)
    IN IF start1 >= end1 THEN t
       ELSE [t EXCEPT !.words = RangeWords(words, start1, end1, FALSE)]

Typed_has(t, index) == TestBit(t.words, index)

\* x >>> 5 on a number that may be negative (-1 >>> 5 is 2^27 - 1)
Ushr5(x) == IF x < 0 THEN 134217728 + (x \div WordBits) ELSE x \div WordBits

\* hasAnyInRange(start, end): the words strictly between firstword and
\* endword - 1 are the ones the loop looks at
Typed_hasAnyInRange(t, start, end) ==
    IF start >= end THEN FALSE
    ELSE LET words == t.words
             start1 == Min2(start, Length(words) * WordBits - 1)
             end1 == Min2(end, Length(words) * WordBits - 1)
             firstword == Ushr5(start1)
             endword == Sar5(end1 - 1)
         IN IF firstword = endword
            THEN RdW(words, firstword) \cap (OnesFrom(start1) \cap OnesBelow(end1)) # {}
            ELSE \/ RdW(words, firstword) \cap OnesFrom(start1) # {}
                 \/ \E index \in (firstword + 1)..(endword - 2) : RdW(words, index) # {}
                 \/ RdW(words, endword) \cap OnesBelow(end1) # {}

\* [obj, ret]. const words = this.words is taken before this.resize(index): when
\* resize allocates, word is read from and newword written to the buffer the
\* object no longer uses
Typed_checkedAdd(t, index) ==
    LET words == t.words
        u == Typed_resize(t, index)
        word == RdW(words, Shr5(index))
        newword == word \cup Bit(index)
        sameBuffer == Length(words) * WordBits > index
    IN [obj |-> IF sameBuffer THEN [u EXCEPT !.words = WrW(words, Shr5(index), newword)] ELSE u,
        ret |-> IF newword = word THEN 0 ELSE 1]

Typed_trim(t) == [t EXCEPT !.words = Slice(t.words, TrimmedLength(t.words))]

Typed_size(t) == CountBits(t.words)

Typed_clone(t) == [kind |-> "dense", words |-> Uint32ArrayOf(t.words).elements]

-----------------------------------------------------------------------------
(* The BitSet interface, dispatched on the class of the receiver *)

add(o, index) == IF o.kind = "sparse" THEN Sparse_add(o, index) ELSE Typed_add(o, index)
remove(o, index) == IF o.kind = "sparse" THEN Sparse_remove(o, index) ELSE Typed_remove(o, index)
flip(o, index) == IF o.kind = "sparse" THEN Sparse_flip(o, index) ELSE Typed_flip(o, index)
checkedAdd(o, index) ==
    IF o.kind = "sparse" THEN Sparse_checkedAdd(o, index) ELSE Typed_checkedAdd(o, index)
addRange(o, start, end) ==
    IF o.kind = "sparse" THEN Sparse_addRange(o, start, end) ELSE Typed_addRange(o, start, end)
removeRange(o, start, end) ==
    IF o.kind = "sparse" THEN Sparse_removeRange(o, start, end) ELSE Typed_removeRange(o, start, end)
clear(o) == IF o.kind = "sparse" THEN Sparse_clear(o) ELSE Typed_clear(o)
trim(o) == IF o.kind = "sparse" THEN Sparse_trim(o) ELSE Typed_trim(o)
has(o, index) == IF o.kind = "sparse" THEN Sparse_has(o, index) ELSE Typed_has(o, index)
size(o) == IF o.kind = "sparse" THEN Sparse_size(o) ELSE Typed_size(o)
clone(o) == IF o.kind = "sparse" THEN Sparse_clone(o) ELSE Typed_clone(o)
\* the object after its words have been read
getWords(o) == IF o.kind = "sparse" THEN Sparse_words(o) ELSE o
\* the buffer the words getter hands out
wordsOf(o) == IF o.kind = "sparse" THEN Sparse_words(o).data ELSE o.words

\* every value for which has() answers true
Members(o) ==
    IF o.kind = "dense" THEN {v \in BitValues(o.words) : has(o, v)}
    ELSE IF o.arraySize = -1 THEN {v \in BitValues(o.data) : has(o, v)}
    ELSE {v \in {Rd(o.data, i) : i \in Live(o)} \ {Undef} : has(o, v)}

\* the same loop taking the highest set bit of the word first
RECURSIVE WordValuesDown(_, _)
WordValuesDown(k, w) ==
    IF w = {} THEN <<>>
    ELSE LET t == CHOOSE x \in w : \A y \in w : x >= y
         IN <<k * WordBits + hammingWeight(0..(t - 1))>> \o WordValuesDown(k, w \ {t})

\* while (w != 0) { const t = w & -w;
\*   answer[pos++] = (k << 5) + hammingWeight((t - 1) | 0); w ^= t; }
\* the values of word k as the inner loop appends them
RECURSIVE WordValues(_, _)
WordValues(k, w) ==
    IF w = {} THEN <<>>
    ELSE LET t == CHOOSE x \in w : \A y \in w : x <= y
         IN <<k * WordBits + hammingWeight(0..(t - 1))>> \o WordValues(k, w \ {t})

\* for (let k = 0; k < c; ++k) { let w = words[k]; ... }
RECURSIVE ArrayLoop(_, _)
ArrayLoop(words, k) ==
    IF k >= Length(words) THEN <<>>
    ELSE WordValues(k, words[k]) \o ArrayLoop(words, k + 1)

\* array() of the dense bitset; answer[pos] is element pos + 1 of the sequence
Typed_array(t) == ArrayLoop(t.words, 0)

\* array() of the adaptive bitset: the word loop in Bitset mode, a copy of the
\* arraySize first slots of the buffer in Array mode
Sparse_array(s) ==
    IF s.arraySize = -1 THEN ArrayLoop(s.data, 0)
    ELSE [i \in 1..s.arraySize |-> Rd(s.data, i - 1)]

BitSet_array(o) == IF o.kind = "sparse" THEN Sparse_array(o) ELSE Typed_array(o)

-----------------------------------------------------------------------------
(* In-place binary operations.  Each gives the receiver and the operand as  *)
(* the call leaves them, which object is returned, and whether the call     *)
(* ended in an exception (a typed array's set() given a longer source).     *)

Outcome(this, other, ret, threw) ==
    [this |-> this, other |-> other, ret |-> ret, threw |-> threw]

\* the words beyond the operand's length left as they are
WordsAndShort(words, otherWords) ==
    [k \in DOMAIN words |-> IF k \in DOMAIN otherWords THEN words[k] \cap otherWords[k] ELSE words[k]]

\* words[k] &= otherWords[k] below newcount, words[k] = 0 from newcount on
WordsAnd(words, otherWords) ==
    [k \in DOMAIN words |-> IF k \in DOMAIN otherWords THEN words[k] \cap otherWords[k] ELSE {}]

\* words[k] &= ~otherWords[k] below newcount
WordsAndNot(words, otherWords) ==
    [k \in DOMAIN words |-> IF k \in DOMAIN otherWords THEN words[k] \ otherWords[k] ELSE words[k]]

\* words[k] |= otherWords[k] below mcount
WordsOr(words, otherWords) ==
    [k \in DOMAIN words |-> IF k \in DOMAIN otherWords THEN words[k] \cup otherWords[k] ELSE words[k]]

\* words[k] = otherWords[k] for mcount <= k < otherWords.length
WordsTail(words, otherWords, mcount) ==
    [k \in DOMAIN words |-> IF k >= mcount /\ k \in DOMAIN otherWords THEN otherWords[k] ELSE words[k]]

Typed_intersection(this, otherbitmap) ==
    LET other == getWords(otherbitmap)
    IN Outcome([this EXCEPT !.words = WordsAnd(this.words, wordsOf(other))], other, "this", FALSE)

Typed_difference(this, otherbitmap) ==
    LET other == getWords(otherbitmap)
    IN Outcome([this EXCEPT !.words = WordsAndNot(this.words, wordsOf(other))], other, "this", FALSE)

Typed_union(this, otherbitmap) ==
    LET other == getWords(otherbitmap)
        otherWords == wordsOf(other)
        mcount == Min2(Length(this.words), Length(otherWords))
        merged == [this EXCEPT !.words = WordsOr(this.words, otherWords)]
        grown == Typed_resize(merged, Length(otherWords) * WordBits - 1)
    IN Outcome(IF Length(this.words) < Length(otherWords)
               THEN [grown EXCEPT !.words = WordsTail(grown.words, otherWords, mcount)]
               ELSE merged,
               other, "this", FALSE)

\* for (i < otherbitmap.arraySize) { index = otherArray[i]; if (tester.has(index))
\*   { if (newSize > 0 && index > newWord[0]) { newWord[newSize++] = newWord[0];
\*     newWord[0] = index } else newWord[newSize++] = index } }
RECURSIVE KeepLoop(_, _, _, _, _, _)
KeepLoop(otherArray, n, i, newWord, newSize, tester) ==
    IF i >= n THEN [data |-> newWord, arraySize |-> newSize]
    ELSE LET index == Rd(otherArray, i)
         IN IF has(tester, index)
            THEN IF newSize > 0 /\ Gt(index, Rd(newWord, 0))
                 THEN KeepLoop(otherArray, n, i + 1,
                               Wr(Wr(newWord, newSize, Rd(newWord, 0)), 0, index),
                               newSize + 1, tester)
                 ELSE KeepLoop(otherArray, n, i + 1, Wr(newWord, newSize, index),
                               newSize + 1, tester)
            ELSE KeepLoop(otherArray, n, i + 1, newWord, newSize, tester)

\* for (i < this.arraySize) { v = array[i]; if (otherbitmap.has(v)) { if (i > 0 &&
\*   v > array[0]) { array[i] = array[0]; array[0] = v } } else
\*   array[i--] = array[--this.arraySize] }
RECURSIVE FilterLoop(_, _, _, _)
FilterLoop(array, n, i, otherbitmap) ==
    IF i >= n THEN [data |-> array, arraySize |-> n]
    ELSE LET v == Rd(array, i)
         IN IF has(otherbitmap, v)
            THEN IF i > 0 /\ Gt(v, Rd(array, 0))
                 THEN FilterLoop(Wr(Wr(array, i, Rd(array, 0)), 0, v), n, i + 1, otherbitmap)
                 ELSE FilterLoop(array, n, i + 1, otherbitmap)
            ELSE FilterLoop(Wr(array, i, Rd(array, n - 1)), n - 1, i, otherbitmap)

Sparse_intersection(this, otherbitmap) ==
    IF this.arraySize = -1
    THEN IF ~IsArray(otherbitmap)
         THEN Outcome([this EXCEPT !.data = WordsAnd(this.data, wordsOf(otherbitmap))],
                      otherbitmap, "this", FALSE)
         ELSE LET kept == KeepLoop(otherbitmap.data, otherbitmap.arraySize, 0,
                                   NewArray(Length(otherbitmap.data)), 0, this)
              IN Outcome([this EXCEPT !.data = kept.data, !.arraySize = kept.arraySize],
                         otherbitmap, "this", FALSE)
    ELSE LET kept == FilterLoop(this.data, this.arraySize, 0, otherbitmap)
         IN Outcome([this EXCEPT !.data = kept.data, !.arraySize = kept.arraySize],
                    otherbitmap, "this", FALSE)

\* for (i < otherbitmap.arraySize) { index = otherArray[i];
\*   if (this.has(index)) this.remove(index) }
RECURSIVE RemoveEach(_, _, _, _)
RemoveEach(this, otherArray, n, i) ==
    IF i >= n THEN [obj |-> this, threw |-> FALSE]
    ELSE LET index == Rd(otherArray, i)
         IN IF Sparse_has(this, index)
            THEN IF Sparse_resizeThrows(this, index) THEN [obj |-> this, threw |-> TRUE]
                 ELSE RemoveEach(Sparse_remove(this, index), otherArray, n, i + 1)
            ELSE RemoveEach(this, otherArray, n, i + 1)

\* for (i < this.arraySize) { if (otherbitmap.has(array[i])) { if (i === 0)
\*   findBiggest = true; array[i--] = array[--this.arraySize] } }
RECURSIVE DropLoop(_, _, _, _, _)
DropLoop(array, n, i, findBiggest, otherbitmap) ==
    IF i >= n THEN [data |-> array, arraySize |-> n, findBiggest |-> findBiggest]
    ELSE IF has(otherbitmap, Rd(array, i))
         THEN DropLoop(Wr(array, i, Rd(array, n - 1)), n - 1, i,
                       findBiggest \/ i = 0, otherbitmap)
         ELSE DropLoop(array, n, i + 1, findBiggest, otherbitmap)

\* the Array-mode receiver of difference / the copy made by difference2
ArrayDifference(array, arraySize, otherbitmap) ==
    LET dropped == DropLoop(array, arraySize, 0, FALSE, otherbitmap)
    IN [data |-> Rebiggest(dropped.data, dropped.arraySize, dropped.findBiggest),
        arraySize |-> dropped.arraySize]

Sparse_difference(this, otherbitmap) ==
    IF this.arraySize = -1
    THEN IF ~IsArray(otherbitmap)
         THEN Outcome([this EXCEPT !.data = WordsAndNot(this.data, wordsOf(otherbitmap))],
                      otherbitmap, "this", FALSE)
         ELSE LET done == RemoveEach(this, otherbitmap.data, otherbitmap.arraySize, 0)
              IN Outcome(done.obj, otherbitmap, "this", done.threw)
    ELSE LET left == ArrayDifference(this.data, this.arraySize, otherbitmap)
         IN Outcome([this EXCEPT !.data = left.data, !.arraySize = left.arraySize],
                    otherbitmap, "this", FALSE)

\* for (i < otherbitmap.arraySize) { index = otherArray[i]; this.add(index) }
RECURSIVE AddEach(_, _, _, _)
AddEach(this, otherArray, n, i) ==
    IF i >= n THEN [obj |-> this, threw |-> FALSE]
    ELSE LET index == Rd(otherArray, i)
         IN IF Sparse_resizeThrows(this, index) THEN [obj |-> this, threw |-> TRUE]
            ELSE AddEach(Sparse_add(this, index), otherArray, n, i + 1)

\* the Bitset-mode merge shared by union
UnionWords(bits, otherWords) ==
    LET mcount == Min2(Length(bits.data), Length(otherWords))
        merged == [bits EXCEPT !.data = WordsOr(bits.data, otherWords)]
        grown == Sparse_resize(merged, Length(otherWords) * WordBits - 1, 0)
    IN IF Length(bits.data) < Length(otherWords)
       THEN [grown EXCEPT !.data = WordsTail(grown.data, otherWords, mcount)]
       ELSE merged

Sparse_union(this, otherbitmap) ==
    IF ~IsArray(otherbitmap)
    THEN Outcome(UnionWords(Sparse_words(this), wordsOf(otherbitmap)), otherbitmap, "this", FALSE)
    ELSE LET done == AddEach(this, otherbitmap.data, otherbitmap.arraySize, 0)
         IN Outcome(done.obj, otherbitmap, "this", done.threw)

\* B = A - B, written into B
Sparse_difference2(this, otherbitmap) ==
    IF this.arraySize = -1 \/ otherbitmap.kind # "sparse"
    THEN LET self == Sparse_words(this)
             src == self.data
             other0 == getWords(otherbitmap)
             mincount == Min2(Length(src), Length(wordsOf(other0)))
             other1 == IF other0.kind = "sparse"
                       THEN Sparse_resize(other0, Length(src) * WordBits - 1, 0)
                       ELSE Typed_resize(other0, Length(src) * WordBits - 1)
             otherWords == wordsOf(other1)
             result == [k \in DOMAIN otherWords |->
                          IF k < mincount THEN src[k] \ otherWords[k]
                          ELSE IF k < Length(src) THEN src[k] ELSE {}]
         IN Outcome(self,
                    IF other1.kind = "sparse" THEN [other1 EXCEPT !.data = result]
                    ELSE [other1 EXCEPT !.words = result],
                    "other", FALSE)
    ELSE LET left == ArrayDifference(this.data, this.arraySize, otherbitmap)
         IN Outcome(this,
                    [otherbitmap EXCEPT !.data = left.data, !.arraySize = left.arraySize],
                    "other", FALSE)

\* words[k] ^= otherWords[k]
Xor(w, v) == (w \ v) \cup (v \ w)

\* for (i < arraySize) { index = array[i]; if ((words[index >>> 5] & (1 << index))
\*   !== 0) words[index >>> 5] &= ~(1 << index) else words[index >>> 5] |= 1 << index }
RECURSIVE ToggleLoop(_, _, _, _)
ToggleLoop(bits, array, n, i) ==
    IF i >= n THEN bits
    ELSE LET index == Rd(array, i)
         IN ToggleLoop(WrW(bits, Shr5(index), Xor(RdW(bits, Shr5(index)), Bit(index))),
                       array, n, i + 1)

\* for (i < otherbitmap.arraySize) { index = otherArray[i];
\*   if (this.has(index)) this.remove(index) else this.add(index) }
RECURSIVE ChangeEach(_, _, _, _)
ChangeEach(this, otherArray, n, i) ==
    IF i >= n THEN [obj |-> this, threw |-> FALSE]
    ELSE LET index == Rd(otherArray, i)
         IN IF Sparse_resizeThrows(this, index) THEN [obj |-> this, threw |-> TRUE]
            ELSE ChangeEach(IF Sparse_has(this, index) THEN Sparse_remove(this, index)
                            ELSE Sparse_add(this, index),
                            otherArray, n, i + 1)

\* x << 5, and x << (5 + 32), whose shift count is taken modulo 32
Shl5(x) == IF x = Undef THEN 0 ELSE x * WordBits

Sparse_change(this, otherbitmap) ==
    IF this.arraySize = -1
    THEN IF ~IsArray(otherbitmap)
         THEN LET otherWords == wordsOf(otherbitmap)
                  mincount == Min2(Length(this.data), Length(otherWords))
                  grown == Sparse_resize(this, Length(otherWords) * WordBits - 1, 0)
              IN Outcome([grown EXCEPT !.data =
                            [k \in DOMAIN grown.data |->
                               IF k < mincount THEN Xor(grown.data[k], otherWords[k])
                               ELSE IF k \in DOMAIN otherWords THEN otherWords[k]
                               ELSE grown.data[k]]],
                         otherbitmap, "this", FALSE)
         ELSE IF otherbitmap.arraySize > 0
         THEN LET otherArray == otherbitmap.data
              IN IF Sparse_resizeThrows(this, Rd(otherArray, 0))
                 THEN Outcome(this, otherbitmap, "this", TRUE)
                 ELSE LET grown == Sparse_resize(this, Rd(otherArray, 0), 0)
                      IN Outcome([grown EXCEPT !.data =
                                    ToggleLoop(grown.data, otherArray, otherbitmap.arraySize, 0)],
                                 otherbitmap, "this", FALSE)
         ELSE Outcome(this, otherbitmap, "this", FALSE)
    ELSE IF ~IsArray(otherbitmap)
         THEN LET otherWords == wordsOf(otherbitmap)
                  wanted == IF this.arraySize > 0 THEN Shl5(Rd(this.data, 0)) ELSE 0
                  fresh == SetInto(NewWords(IF wanted > Length(otherWords) THEN wanted
                                            ELSE Length(otherWords)), otherWords)
              IN Outcome([this EXCEPT !.data = ToggleLoop(fresh, this.data, this.arraySize, 0),
                                      !.arraySize = -1],
                         otherbitmap, "this", FALSE)
         ELSE LET done == ChangeEach(this, otherbitmap.data, otherbitmap.arraySize, 0)
              IN Outcome(done.obj, otherbitmap, "this", done.threw)

-----------------------------------------------------------------------------
(* Binary operations that build a new bitset *)

Built(this, other, answer, threw) ==
    [this |-> this, other |-> other, answer |-> answer, ret |-> "answer", threw |-> threw]

\* puts the Array-mode operand first, and of two the one with fewer elements
order(first, second) ==
    IF ~IsArray(first)
    THEN IF ~IsArray(second) THEN [first |-> first, second |-> second, type |-> "BITSET"]
         ELSE [first |-> second, second |-> first, type |-> "MIXED"]
    ELSE IF ~IsArray(second) THEN [first |-> first, second |-> second, type |-> "MIXED"]
         ELSE IF second.arraySize > first.arraySize
              THEN [first |-> first, second |-> second, type |-> "ARRAY"]
              ELSE [first |-> second, second |-> first, type |-> "ARRAY"]

Sparse_new_intersection(this, otherbitmap) ==
    LET o == order(this, otherbitmap)
    IN IF o.type = "BITSET"
       THEN LET bits == wordsOf(o.first)
                otherWords == wordsOf(o.second)
                count == Min2(Length(bits), Length(otherWords))
            IN Built(this, otherbitmap,
                     [kind |-> "sparse", arraySize |-> -1,
                      data |-> [k \in 0..(count - 1) |-> bits[k] \cap otherWords[k]]],
                     FALSE)
       ELSE LET kept == KeepLoop(o.first.data, o.first.arraySize, 0,
                                 NewArray(Length(o.first.data)), 0, o.second)
            IN Built(this, otherbitmap,
                     [kind |-> "sparse", arraySize |-> kept.arraySize, data |-> kept.data],
                     FALSE)

Sparse_new_difference(this, otherbitmap) ==
    LET done == Sparse_difference(Sparse_clone(this), otherbitmap)
    IN Built(this, done.other, done.this, done.threw)

\* for (i < first.arraySize) { index = array[i]; offset = newArray.indexOf(index);
\*   if (offset !== -1 && offset < newSize) newArray[offset] = newArray[--newSize]
\*   else newArray[newSize++] = index }
RECURSIVE MergeLoop(_, _, _, _, _)
MergeLoop(newArray, newSize, array, n, i) ==
    IF i >= n THEN [data |-> newArray, arraySize |-> newSize]
    ELSE LET index == Rd(array, i)
             offset == IndexOf(newArray, index)
         IN IF offset # -1 /\ offset < newSize
            THEN MergeLoop(Wr(newArray, offset, Rd(newArray, newSize - 1)), newSize - 1,
                           array, n, i + 1)
            ELSE MergeLoop(Wr(newArray, newSize, index), newSize + 1, array, n, i + 1)

Sparse_new_change(this, otherbitmap) ==
    LET o == order(this, otherbitmap)
    IN IF o.type = "BITSET"
       THEN LET bits == wordsOf(this)
                otherWords == wordsOf(otherbitmap)
                count == IF Length(bits) > Length(otherWords) THEN Length(bits)
                         ELSE Length(otherWords)
            IN Built(this, otherbitmap,
                     [kind |-> "sparse", arraySize |-> -1,
                      data |-> [k \in 0..(count - 1) |-> Xor(RdW(bits, k), RdW(otherWords, k))]],
                     FALSE)
       ELSE IF o.type = "MIXED"
       THEN LET otherWords == wordsOf(o.second)
                biggest == Rd(o.first.data, 0)
                wanted == IF o.first.arraySize > 0 /\ biggest # Undef
                          THEN Shl5(biggest + WordBits) ELSE 0
                fresh == SetInto(NewWords(IF wanted > Length(otherWords) THEN wanted
                                          ELSE Length(otherWords)), otherWords)
            IN Built(this, otherbitmap,
                     [kind |-> "sparse", arraySize |-> -1,
                      data |-> ToggleLoop(fresh, o.first.data, o.first.arraySize, 0)],
                     FALSE)
       ELSE LET merged == MergeLoop(
                    SetInto(NewArray(Length(o.first.data) + Length(o.second.data)), o.second.data),
                    o.second.arraySize, o.first.data, o.first.arraySize, 0)
                newSize == merged.arraySize
            IN Built(this, otherbitmap,
                     [kind |-> "sparse", arraySize |-> newSize,
                      data |-> IF newSize > 1
                               THEN SwapToFront(merged.data, ScanLargest(merged.data, 1, newSize, 0))
                               ELSE merged.data],
                     FALSE)

Sparse_new_union(this, otherbitmap) ==
    IF ~IsArray(otherbitmap)
    THEN LET bits == IF this.arraySize # -1 THEN toBitset(this) ELSE this.data
             otherWords == wordsOf(otherbitmap)
             count == IF Length(bits) > Length(otherWords) THEN Length(bits)
                      ELSE Length(otherWords)
         IN Built(this, otherbitmap,
                  [kind |-> "sparse", arraySize |-> -1,
                   data |-> [k \in 0..(count - 1) |-> RdW(bits, k) \cup RdW(otherWords, k)]],
                  FALSE)
    ELSE LET done == AddEach(Sparse_clone(this), otherbitmap.data, otherbitmap.arraySize, 0)
         IN Built(this, otherbitmap, done.obj, done.threw)

-----------------------------------------------------------------------------
(* TypedFastBitSet: difference2 and change *)

\* difference2 without its last two steps: the operand's words from mincount on
\* are left as they were
Typed_difference2Short(this, otherbitmap) ==
    LET words == this.words
        other0 == getWords(otherbitmap)
        otherWords == wordsOf(other0)
        result == [k \in DOMAIN otherWords |->
                     IF k \in DOMAIN words THEN words[k] \ otherWords[k] ELSE otherWords[k]]
    IN Outcome(this,
               IF other0.kind = "sparse" THEN [other0 EXCEPT !.data = result]
               ELSE [other0 EXCEPT !.words = result],
               "other", FALSE)

\* B = A - B, written into B: otherWords[k] = words[k] & ~otherWords[k] below
\* mincount, otherWords[k] = words[k] up to words.length, otherWords.fill(0, k)
Typed_difference2(this, otherbitmap) ==
    LET words == this.words
        other0 == getWords(otherbitmap)
        mincount == Min2(Length(words), Length(wordsOf(other0)))
        other1 == IF other0.kind = "sparse"
                  THEN Sparse_resize(other0, Length(words) * WordBits - 1, 0)
                  ELSE Typed_resize(other0, Length(words) * WordBits - 1)
        otherWords == wordsOf(other1)
        result == [k \in DOMAIN otherWords |->
                     IF k < mincount THEN words[k] \ otherWords[k]
                     ELSE IF k < Length(words) THEN words[k] ELSE {}]
    IN Outcome(this,
               IF other1.kind = "sparse" THEN [other1 EXCEPT !.data = result]
               ELSE [other1 EXCEPT !.words = result],
               "other", FALSE)

\* words[k] ^= otherWords[k] below mincount, words[k] = otherWords[k] from there
\* to otherWords.length, on the receiver resized to the operand's length
Typed_change(this, otherbitmap) ==
    LET other == getWords(otherbitmap)
        otherWords == wordsOf(other)
        mincount == Min2(Length(this.words), Length(otherWords))
        grown == Typed_resize(this, Length(otherWords) * WordBits - 1)
    IN Outcome([grown EXCEPT !.words =
                  [k \in DOMAIN grown.words |->
                     IF k < mincount THEN Xor(grown.words[k], otherWords[k])
                     ELSE IF k \in DOMAIN otherWords THEN otherWords[k]
                     ELSE grown.words[k]]],
               other, "this", FALSE)

(* TypedFastBitSet: operations that build a new bitset *)

Typed_new_intersection(this, otherbitmap) ==
    LET other == getWords(otherbitmap)
        words == this.words
        otherWords == wordsOf(other)
        count == Min2(Length(words), Length(otherWords))
    IN Built(this, other,
             [kind |-> "dense", words |-> [k \in 0..(count - 1) |-> words[k] \cap otherWords[k]]],
             FALSE)

\* this.clone().difference(otherbitmap)
Typed_new_difference(this, otherbitmap) ==
    LET done == Typed_difference(Typed_clone(this), otherbitmap)
    IN Built(this, done.other, done.this, done.threw)

Typed_new_change(this, otherbitmap) ==
    LET other == getWords(otherbitmap)
        words == this.words
        otherWords == wordsOf(other)
        count == Max2(Length(words), Length(otherWords))
    IN Built(this, other,
             [kind |-> "dense",
              words |-> [k \in 0..(count - 1) |-> Xor(RdW(words, k), RdW(otherWords, k))]],
             FALSE)

Typed_new_union(this, otherbitmap) ==
    LET other == getWords(otherbitmap)
        words == this.words
        otherWords == wordsOf(other)
        count == Max2(Length(words), Length(otherWords))
    IN Built(this, other,
             [kind |-> "dense",
              words |-> [k \in 0..(count - 1) |-> RdW(words, k) \cup RdW(otherWords, k)]],
             FALSE)

-----------------------------------------------------------------------------
(* Operations that only answer: the cardinality of a result, equality,     *)
(* intersection.  A dense receiver reads otherbitmap.words, which puts an   *)
(* Array-mode operand into Bitset mode.                                     *)

Answered(this, other, value) ==
    [this |-> this, other |-> other, ret |-> "value", threw |-> FALSE, value |-> value]

\* the number of live slots i of first whose value second holds (found = TRUE)
\* or does not hold (found = FALSE):  for (i < first.arraySize) if (second.has(array[i]))
SlotsHeld(first, second, found) ==
    Cardinality({i \in Live(first) : has(second, Rd(first.data, i)) = found})

\* answer += hammingWeight(words[k] & otherWords[k]) for k < newcount
AndWeight(words, otherWords) ==
    CountBits([k \in DOMAIN words \cap DOMAIN otherWords |-> words[k] \cap otherWords[k]])

\* hammingWeight(words[k] | otherWords[k]) below mcount, then the longer one's words
OrWeight(words, otherWords) ==
    CountBits([k \in DOMAIN words \cup DOMAIN otherWords |-> RdW(words, k) \cup RdW(otherWords, k)])

\* hammingWeight(words[k] & ~otherWords[k]) below newcount, then hammingWeight(words[k])
AndNotWeight(words, otherWords) ==
    CountBits([k \in DOMAIN words |-> words[k] \ RdW(otherWords, k)])

\* the words beyond mincount left out of the count
XorWeightShort(words, otherWords) ==
    CountBits([k \in DOMAIN words \cap DOMAIN otherWords |-> Xor(words[k], otherWords[k])])

\* hammingWeight(words[k] ^ otherWords[k]) below mincount, then the longer one's words
XorWeight(words, otherWords) ==
    CountBits([k \in DOMAIN words \cup DOMAIN otherWords |->
                 Xor(RdW(words, k), RdW(otherWords, k))])

Typed_intersection_size(this, otherbitmap) ==
    LET other == getWords(otherbitmap)
    IN Answered(this, other, AndWeight(this.words, wordsOf(other)))

Typed_union_size(this, otherbitmap) ==
    LET other == getWords(otherbitmap)
    IN Answered(this, other, OrWeight(this.words, wordsOf(other)))

Typed_difference_size(this, otherbitmap) ==
    LET other == getWords(otherbitmap)
    IN Answered(this, other, AndNotWeight(this.words, wordsOf(other)))

Typed_change_size(this, otherbitmap) ==
    LET other == getWords(otherbitmap)
    IN Answered(this, other, XorWeight(this.words, wordsOf(other)))

Sparse_intersection_size(this, otherbitmap) ==
    LET o == order(this, otherbitmap)
    IN Answered(this, otherbitmap,
                IF o.type = "BITSET" THEN AndWeight(wordsOf(o.first), wordsOf(o.second))
                ELSE SlotsHeld(o.first, o.second, TRUE))

Sparse_union_size(this, otherbitmap) ==
    LET o == order(this, otherbitmap)
    IN Answered(this, otherbitmap,
                IF o.type = "BITSET" THEN OrWeight(wordsOf(o.first), wordsOf(o.second))
                ELSE size(o.second) + SlotsHeld(o.first, o.second, FALSE))

Sparse_difference_size(this, otherbitmap) ==
    Answered(this, otherbitmap,
             IF this.arraySize = -1
             THEN IF ~IsArray(otherbitmap)
                  THEN AndNotWeight(this.data, wordsOf(otherbitmap))
                  ELSE Sparse_size(this) - SlotsHeld(otherbitmap, this, TRUE)
             ELSE this.arraySize - SlotsHeld(this, otherbitmap, TRUE))

\* MIXED starts from second.size(), ARRAY from second.arraySize
Sparse_change_size(this, otherbitmap) ==
    LET o == order(this, otherbitmap)
    IN Answered(this, otherbitmap,
                IF o.type = "BITSET" THEN XorWeight(wordsOf(this), wordsOf(otherbitmap))
                ELSE (IF o.type = "MIXED" THEN size(o.second) ELSE o.second.arraySize)
                     - SlotsHeld(o.first, o.second, TRUE)
                     + SlotsHeld(o.first, o.second, FALSE))

\* only the words below mcount compared
Typed_equalsPrefix(this, otherbitmap) ==
    LET other == getWords(otherbitmap)
        words == this.words
        otherWords == wordsOf(other)
    IN Answered(this, other,
                \A k \in DOMAIN words \cap DOMAIN otherWords : words[k] = otherWords[k])

\* words[k] != otherWords[k] below mcount, then the longer one's words != 0
Typed_equals(this, otherbitmap) ==
    LET other == getWords(otherbitmap)
        words == this.words
        otherWords == wordsOf(other)
    IN Answered(this, other,
                \A k \in DOMAIN words \cup DOMAIN otherWords : RdW(words, k) = RdW(otherWords, k))

Sparse_equals(this, otherbitmap) ==
    LET o == order(this, otherbitmap)
        words == wordsOf(this)
        otherWords == wordsOf(otherbitmap)
    IN Answered(this, otherbitmap,
                IF o.type = "BITSET"
                THEN \A k \in DOMAIN words \cup DOMAIN otherWords :
                         RdW(words, k) = RdW(otherWords, k)
                ELSE /\ size(o.first) = size(o.second)
                     /\ \A i \in Live(o.first) : has(o.second, Rd(o.first.data, i)))

equals(this, otherbitmap) ==
    IF this.kind = "sparse" THEN Sparse_equals(this, otherbitmap)
    ELSE Typed_equals(this, otherbitmap)

\* (words[k] & otherWords[k]) !== 0 for some k below newcount
Typed_intersects(this, otherbitmap) ==
    LET other == getWords(otherbitmap)
    IN Answered(this, other,
                \E k \in DOMAIN this.words \cap DOMAIN wordsOf(other) :
                    this.words[k] \cap wordsOf(other)[k] # {})

Sparse_intersects(this, otherbitmap) ==
    LET o == order(this, otherbitmap)
        firstWords == wordsOf(o.first)
        secondWords == wordsOf(o.second)
    IN Answered(this, otherbitmap,
                IF o.type = "BITSET"
                THEN \E k \in DOMAIN firstWords \cap DOMAIN secondWords :
                         firstWords[k] \cap secondWords[k] # {}
                ELSE \E i \in Live(o.first) : has(o.second, Rd(o.first.data, i)))

-----------------------------------------------------------------------------
\* constructor(iterable): for (const key of iterable) this.add(key)
RECURSIVE AddAll(_, _, _)
AddAll(o, iterable, i) ==
    IF i > Len(iterable) THEN o ELSE AddAll(add(o, iterable[i]), iterable, i + 1)

SparseTypedFastBitSet(iterable) == AddAll(NewSparse, iterable, 1)

TypedFastBitSet(iterable) == AddAll(NewTyped, iterable, 1)

-----------------------------------------------------------------------------
(* The receiver passed as its own operand: otherbitmap is this, so every    *)
(* read of otherbitmap.arraySize, otherbitmap.has() and otherbitmap.words   *)
(* sees what the call has written so far.  The dense methods read and       *)
(* write word k in one statement, so they are the two-operand operators     *)
(* applied to the same words.                                               *)

\* the number of turns of a loop after which it is taken not to end
LoopLimit == 40

\* for (i < otherbitmap.arraySize) { index = otherArray[i]; ... } of union and
\* change in Array mode.  otherArray is this.data as the loop found it: it is
\* the buffer the calls write to (live) until a resize() gives the bitset
\* another one, and then keeps the content it had (held).  toggle says that a
\* value found is removed (change) and not left alone (union).
RECURSIVE EachSelf(_, _, _, _, _)
EachSelf(this, held, live, i, toggle) ==
    IF this.arraySize = -1 \/ i >= this.arraySize THEN [obj |-> this, ends |-> TRUE]
    ELSE IF i >= LoopLimit THEN [obj |-> this, ends |-> FALSE]
    ELSE LET index == Rd(IF live THEN this.data ELSE held, i)
             moved == Sparse_resize(this, index, 0) # this
             next == IF toggle /\ Sparse_has(this, index) THEN Sparse_remove(this, index)
                     ELSE Sparse_add(this, index)
         IN EachSelf(next, IF live /\ moved THEN this.data ELSE held, live /\ ~moved,
                     i + 1, toggle)

Sparse_unionSelf(this) ==
    IF this.arraySize = -1 THEN [obj |-> UnionWords(this, this.data), ends |-> TRUE]
    ELSE EachSelf(this, this.data, TRUE, 0, FALSE)

Sparse_changeSelf(this) ==
    IF this.arraySize = -1 THEN [obj |-> Sparse_change(this, this).this, ends |-> TRUE]
    ELSE EachSelf(this, this.data, TRUE, 0, TRUE)

\* difference, Array mode: the loop of DropLoop with otherbitmap.has(array[i])
\* asked of the array as the loop has left it
RECURSIVE DropLoopSelf(_, _, _, _)
DropLoopSelf(array, n, i, findBiggest) ==
    IF i >= n THEN [data |-> array, arraySize |-> n, findBiggest |-> findBiggest]
    ELSE LET offset == IndexOf(array, Rd(array, i))
         IN IF offset # -1 /\ offset < n
            THEN DropLoopSelf(Wr(array, i, Rd(array, n - 1)), n - 1, i, findBiggest \/ i = 0)
            ELSE DropLoopSelf(array, n, i + 1, findBiggest)

Sparse_differenceSelf(this) ==
    IF this.arraySize = -1 THEN [this EXCEPT !.data = WordsAndNot(this.data, this.data)]
    ELSE LET dropped == DropLoopSelf(this.data, this.arraySize, 0, FALSE)
         IN [this EXCEPT !.data = Rebiggest(dropped.data, dropped.arraySize, dropped.findBiggest),
                         !.arraySize = dropped.arraySize]

\* intersection, Array mode: the loop of FilterLoop with otherbitmap.has(v)
\* asked of the array as the loop has left it
RECURSIVE FilterLoopSelf(_, _, _)
FilterLoopSelf(array, n, i) ==
    IF i >= n THEN [data |-> array, arraySize |-> n]
    ELSE LET v == Rd(array, i)
             offset == IndexOf(array, v)
         IN IF offset # -1 /\ offset < n
            THEN IF i > 0 /\ Gt(v, Rd(array, 0))
                 THEN FilterLoopSelf(Wr(Wr(array, i, Rd(array, 0)), 0, v), n, i + 1)
                 ELSE FilterLoopSelf(array, n, i + 1)
            ELSE FilterLoopSelf(Wr(array, i, Rd(array, n - 1)), n - 1, i)

Sparse_intersectionSelf(this) ==
    IF this.arraySize = -1 THEN [this EXCEPT !.data = WordsAnd(this.data, this.data)]
    ELSE LET kept == FilterLoopSelf(this.data, this.arraySize, 0)
         IN [this EXCEPT !.data = kept.data, !.arraySize = kept.arraySize]

-----------------------------------------------------------------------------
(* TypedFastBitSet with a logical word count:                               *)
(* [kind |-> "counted", words, count].  words is the whole buffer, _count   *)
(* the number of words in use.                                              *)

NewCounted == [kind |-> "counted", words |-> NewWords(DefaultWords), count |-> 0]

\* resize(index): newCapacity is count, doubled when the doubling does not
\* overflow, then doubled again
Counted_resize(t, index) ==
    LET count == CountFor(index)
        newCapacity == 2 * (IF 2 * count > count THEN 2 * count ELSE count)
    IN IF t.count * WordBits > index THEN t
       ELSE IF count <= Length(t.words) THEN [t EXCEPT !.count = count]
       ELSE [t EXCEPT !.words = SetInto(NewWords(newCapacity), Slice(t.words, t.count)),
                      !.count = count]

\* resizeTo(size), size being nbits
Counted_resizeTo(t, nbits) ==
    LET needed == (nbits + WordBits - 1) \div WordBits
    IN IF t.count >= needed THEN t
       ELSE IF needed <= Length(t.words) THEN [t EXCEPT !.count = needed]
       ELSE [t EXCEPT !.words = SetInto(NewWords(needed), Slice(t.words, t.count)),
                      !.count = needed]

Counted_add(t, index) ==
    LET u == Counted_resize(t, index)
    IN [u EXCEPT !.words = WrW(u.words, Shr5(index), RdW(u.words, Shr5(index)) \cup Bit(index))]

Counted_remove(t, index) ==
    LET u == Counted_resize(t, index)
    IN [u EXCEPT !.words = WrW(u.words, Shr5(index), RdW(u.words, Shr5(index)) \ Bit(index))]

Counted_has(t, index) == TestBit(t.words, index)

\* let nl = this._count; while (nl > 0 && this.words[nl - 1] === 0) nl--;
\* where the loop stops: just after the last non-zero word below nl
Counted_trimmedCount(t, nl) ==
    LET used == {k \in 0..(nl - 1) : RdW(t.words, k) # {}}
    IN IF used = {} THEN 0 ELSE 1 + CHOOSE k \in used : \A j \in used : j <= k

Counted_trim(t) ==
    LET nl == Counted_trimmedCount(t, t.count)
    IN IF nl < Length(t.words) THEN [t EXCEPT !.count = nl, !.words = Slice(t.words, nl)]
       ELSE [t EXCEPT !.count = nl]

-----------------------------------------------------------------------------
(* One bitset driven through its single-operand operations *)

MaxOps == 3

Indices == {0, 1, 33, 255, 256}

Ranges == {<<0, 3>>, <<31, 34>>, <<255, 256>>, <<0, 300>>, <<3, 1>>}

\* no forEach or iterator is under way
NoTraversal == [kind |-> "none"]

Called(op, x, y, ret) ==
    [op |-> op, x |-> x, y |-> y, ret |-> ret, recv |-> "a", returned |-> "none",
     threw |-> FALSE]

\* the receiver a becomes obj; pre keeps both objects as they were before the call
Step(op, x, y, obj, ret) ==
    /\ steps < MaxOps
    /\ a' = obj
    /\ pre' = [a |-> a, b |-> b]
    /\ last' = Called(op, x, y, ret)
    /\ steps' = steps + 1
    /\ UNCHANGED <<b, r, shared, it>>

Init ==
    /\ a \in {NewSparse, NewTyped}
    /\ b = NewTyped
    /\ r = NewTyped
    /\ pre = [a |-> a, b |-> b]
    /\ last = Called("new", 0, 0, 0)
    /\ steps = 0
    /\ shared = FALSE
    /\ it = NoTraversal

Add == \E index \in Indices : Step("add", index, 0, add(a, index), 0)

Remove == \E index \in Indices : Step("remove", index, 0, remove(a, index), 0)

Flip == \E index \in Indices : Step("flip", index, 0, flip(a, index), 0)

CheckedAdd ==
    \E index \in Indices :
        LET out == checkedAdd(a, index) IN Step("checkedAdd", index, 0, out.obj, out.ret)

AddRange == \E range \in Ranges : Step("addRange", range[1], range[2], addRange(a, range[1], range[2]), 0)

RemoveRange ==
    \E range \in Ranges : Step("removeRange", range[1], range[2], removeRange(a, range[1], range[2]), 0)

Clear == Step("clear", 0, 0, clear(a), 0)

Trim == Step("trim", 0, 0, trim(a), 0)

ReadWords == Step("words", 0, 0, getWords(a), 0)

NextCore == Add \/ Remove \/ CheckedAdd \/ AddRange \/ RemoveRange \/ Clear

Next == NextCore \/ Flip \/ Trim \/ ReadWords

Spec == Init /\ [][Next]_vars

\* only the operations that build a set from empty: add, remove, checkedAdd,
\* addRange, removeRange, clear
SpecCore == Init /\ [][NextCore]_vars

-----------------------------------------------------------------------------
(* The same calls made on an Array-mode bitset a and on a copy b of it that  *)
(* was put into Bitset mode by reading words                                 *)

TwinSeeds == {<<>>, <<1>>, <<33, 1>>}

TwinStep(op, x, y, objA, objB) ==
    /\ steps < MaxOps
    /\ a' = objA
    /\ b' = objB
    /\ pre' = [a |-> a, b |-> b]
    /\ last' = Called(op, x, y, 0)
    /\ steps' = steps + 1
    /\ UNCHANGED <<r, shared, it>>

InitTwin ==
    /\ a \in {SparseTypedFastBitSet(iterable) : iterable \in TwinSeeds}
    /\ b = Sparse_words(Sparse_clone(a))
    /\ r = NewTyped
    /\ pre = [a |-> a, b |-> b]
    /\ last = Called("new", 0, 0, 0)
    /\ steps = 0
    /\ shared = FALSE
    /\ it = NoTraversal

TwinAdd == \E index \in Indices : TwinStep("add", index, 0, add(a, index), add(b, index))

TwinRemove ==
    \E index \in Indices : TwinStep("remove", index, 0, remove(a, index), remove(b, index))

TwinFlip == \E index \in Indices : TwinStep("flip", index, 0, flip(a, index), flip(b, index))

TwinCheckedAdd ==
    \E index \in Indices :
        TwinStep("checkedAdd", index, 0, checkedAdd(a, index).obj, checkedAdd(b, index).obj)

TwinAddRange ==
    \E range \in Ranges :
        TwinStep("addRange", range[1], range[2],
                 addRange(a, range[1], range[2]), addRange(b, range[1], range[2]))

TwinRemoveRange ==
    \E range \in Ranges :
        TwinStep("removeRange", range[1], range[2],
                 removeRange(a, range[1], range[2]), removeRange(b, range[1], range[2]))

TwinClear == TwinStep("clear", 0, 0, clear(a), clear(b))

TwinTrim == TwinStep("trim", 0, 0, trim(a), trim(b))

NextTwin ==
    \/ TwinAdd \/ TwinRemove \/ TwinFlip \/ TwinCheckedAdd
    \/ TwinAddRange \/ TwinRemoveRange \/ TwinClear \/ TwinTrim

SpecTwin == InitTwin /\ [][NextTwin]_vars

-----------------------------------------------------------------------------
(* The same calls made on a bitset a that was trimmed first and on the      *)
(* untrimmed bitset b it was cloned from                                    *)

TrimmedSeeds ==
    <<NewSparse, SparseTypedFastBitSet(<<1>>), SparseTypedFastBitSet(<<33, 1>>),
      Sparse_words(NewSparse), Sparse_words(SparseTypedFastBitSet(<<33, 1>>)),
      Sparse_words(SparseTypedFastBitSet(<<200, 1>>)),
      NewTyped, TypedFastBitSet(<<33, 1>>)>>

InitTrimmed ==
    /\ \E seed \in DOMAIN TrimmedSeeds :
           /\ b = TrimmedSeeds[seed]
           /\ a = trim(clone(TrimmedSeeds[seed]))
    /\ r = NewTyped
    /\ pre = [a |-> a, b |-> b]
    /\ last = Called("trim", 0, 0, 0)
    /\ steps = 0
    /\ shared = FALSE
    /\ it = NoTraversal

NextTrimmed == TwinAdd \/ TwinRemove \/ TwinFlip \/ TwinCheckedAdd \/ TwinAddRange

SpecTrimmed == InitTrimmed /\ [][NextTrimmed]_vars

\* C1: an Array-mode bitset and its copy forced into Bitset mode, given the same
\* mutating calls in the same order, have the same members and the same size()
\* after every call
C1_ModeEquivalence == Members(a) = Members(b) /\ size(a) = size(b)

-----------------------------------------------------------------------------
(* Two bitsets a and b: single-operand calls on a, and two-operand calls in  *)
(* which either one is the receiver and the other the operand.  r is the     *)
(* bitset the last new_ operation or clone built.                            *)

MaxBinOps == 2

Lists == {<<>>, <<0>>, <<5, 1>>, <<5, 40, 1>>}

BinIndices == {0, 40}

\* every list as an Array-mode bitset, as the same put into Bitset mode by reading
\* words, as the same trimmed, and as a dense bitset
Operands ==
    UNION {{SparseTypedFastBitSet(iterable),
            Sparse_words(SparseTypedFastBitSet(iterable)),
            Sparse_trim(SparseTypedFastBitSet(iterable)),
            TypedFastBitSet(iterable)} : iterable \in Lists}

InitBin ==
    /\ a \in Operands
    /\ b \in Operands
    /\ r = NewTyped
    /\ pre = [a |-> a, b |-> b]
    /\ last = Called("new", 0, 0, 0)
    /\ steps = 0
    /\ shared = FALSE
    /\ it = NoTraversal

\* a single-operand call on a
BinStep(op, x, obj, ret) ==
    /\ steps < MaxBinOps
    /\ a' = obj
    /\ pre' = [a |-> a, b |-> b]
    /\ last' = Called(op, x, 0, ret)
    /\ steps' = steps + 1
    /\ UNCHANGED <<b, r, shared, it>>

Receiver(recv) == IF recv = "a" THEN a ELSE b
Operand(recv) == IF recv = "a" THEN b ELSE a

\* a two-operand call: out is what the operation gives for Receiver(recv) and
\* Operand(recv)
Apply(op, recv, out) ==
    /\ steps < MaxBinOps
    /\ a' = (IF recv = "a" THEN out.this ELSE out.other)
    /\ b' = (IF recv = "a" THEN out.other ELSE out.this)
    /\ r' = (IF out.ret = "answer" /\ ~out.threw THEN out.answer ELSE r)
    /\ pre' = [a |-> a, b |-> b]
    /\ last' = [Called(op, 0, 0, 0) EXCEPT !.recv = recv, !.returned = out.ret,
                                           !.threw = out.threw]
    /\ steps' = steps + 1
    /\ UNCHANGED <<shared, it>>

BinAdd == \E index \in BinIndices : BinStep("add", index, add(a, index), 0)
BinRemove == \E index \in BinIndices : BinStep("remove", index, remove(a, index), 0)
BinFlip == \E index \in BinIndices : BinStep("flip", index, flip(a, index), 0)
BinCheckedAdd ==
    \E index \in BinIndices :
        BinStep("checkedAdd", index, checkedAdd(a, index).obj, checkedAdd(a, index).ret)
BinAddRange == BinStep("addRange", 1, addRange(a, 1, 4), 0)
BinRemoveRange == BinStep("removeRange", 1, removeRange(a, 1, 4), 0)
BinTrim == BinStep("trim", 0, trim(a), 0)

Clone ==
    /\ steps < MaxBinOps
    /\ r' = clone(a)
    /\ pre' = [a |-> a, b |-> b]
    /\ last' = [Called("clone", 0, 0, 0) EXCEPT !.returned = "answer"]
    /\ steps' = steps + 1
    /\ UNCHANGED <<a, b, shared, it>>

Union ==
    \E recv \in {"a", "b"} :
        Apply("union", recv,
              IF Receiver(recv).kind = "sparse" THEN Sparse_union(Receiver(recv), Operand(recv))
              ELSE Typed_union(Receiver(recv), Operand(recv)))

Intersection ==
    \E recv \in {"a", "b"} :
        Apply("intersection", recv,
              IF Receiver(recv).kind = "sparse"
              THEN Sparse_intersection(Receiver(recv), Operand(recv))
              ELSE Typed_intersection(Receiver(recv), Operand(recv)))

Difference ==
    \E recv \in {"a", "b"} :
        Apply("difference", recv,
              IF Receiver(recv).kind = "sparse"
              THEN Sparse_difference(Receiver(recv), Operand(recv))
              ELSE Typed_difference(Receiver(recv), Operand(recv)))

Difference2 ==
    \E recv \in {"a", "b"} :
        /\ Receiver(recv).kind = "sparse"
        /\ Apply("difference2", recv, Sparse_difference2(Receiver(recv), Operand(recv)))

Change ==
    \E recv \in {"a", "b"} :
        /\ Receiver(recv).kind = "sparse"
        /\ Apply("change", recv, Sparse_change(Receiver(recv), Operand(recv)))

NewIntersection ==
    \E recv \in {"a", "b"} :
        /\ Receiver(recv).kind = "sparse"
        /\ Apply("new_intersection", recv,
                 Sparse_new_intersection(Receiver(recv), Operand(recv)))

NewDifference ==
    \E recv \in {"a", "b"} :
        /\ Receiver(recv).kind = "sparse"
        /\ Apply("new_difference", recv, Sparse_new_difference(Receiver(recv), Operand(recv)))

NewChange ==
    \E recv \in {"a", "b"} :
        /\ Receiver(recv).kind = "sparse"
        /\ Apply("new_change", recv, Sparse_new_change(Receiver(recv), Operand(recv)))

NewUnion ==
    \E recv \in {"a", "b"} :
        /\ Receiver(recv).kind = "sparse"
        /\ Apply("new_union", recv, Sparse_new_union(Receiver(recv), Operand(recv)))

NextBin ==
    \/ BinAdd \/ BinRemove \/ BinFlip \/ BinCheckedAdd \/ BinAddRange \/ BinRemoveRange
    \/ BinTrim \/ Clone
    \/ Union \/ Intersection \/ Difference \/ Difference2 \/ Change
    \/ NewIntersection \/ NewDifference \/ NewChange \/ NewUnion

SpecBin == InitBin /\ [][NextBin]_vars

-----------------------------------------------------------------------------
(* One two-operand call on a pair of bitsets of every kind, mode and buffer  *)
(* length, either one the receiver                                           *)

MaxPairOps == 2

\* the operands of the two-bitset machine, and each list also as a trimmed
\* dense bitset and as a trimmed adaptive bitset in Bitset mode
PairOperands ==
    Operands \cup
    UNION {{Typed_trim(TypedFastBitSet(iterable)),
            Sparse_trim(Sparse_words(SparseTypedFastBitSet(iterable)))} : iterable \in Lists}

InitPair ==
    /\ a \in PairOperands
    /\ b \in PairOperands
    /\ r = NewTyped
    /\ pre = [a |-> a, b |-> b]
    /\ last = Called("new", 0, 0, 0)
    /\ steps = 0
    /\ shared = FALSE
    /\ it = NoTraversal

\* a two-operand call: out is what the operation gives for Receiver(recv) and
\* Operand(recv); value is the number or boolean it returned, if any
PairApply(op, recv, out, value) ==
    /\ steps < MaxPairOps
    /\ a' = (IF recv = "a" THEN out.this ELSE out.other)
    /\ b' = (IF recv = "a" THEN out.other ELSE out.this)
    /\ r' = (IF out.ret = "answer" /\ ~out.threw THEN out.answer ELSE r)
    /\ pre' = [a |-> a, b |-> b]
    /\ last' = [Called(op, 0, 0, value) EXCEPT !.recv = recv, !.returned = out.ret,
                                               !.threw = out.threw]
    /\ steps' = steps + 1
    /\ UNCHANGED <<shared, it>>

PairDifference2 ==
    \E recv \in {"a", "b"} :
        PairApply("difference2", recv,
                  IF Receiver(recv).kind = "sparse"
                  THEN Sparse_difference2(Receiver(recv), Operand(recv))
                  ELSE Typed_difference2(Receiver(recv), Operand(recv)),
                  0)

PairChange ==
    \E recv \in {"a", "b"} :
        PairApply("change", recv,
                  IF Receiver(recv).kind = "sparse"
                  THEN Sparse_change(Receiver(recv), Operand(recv))
                  ELSE Typed_change(Receiver(recv), Operand(recv)),
                  0)

PairNewUnion ==
    \E recv \in {"a", "b"} :
        PairApply("new_union", recv,
                  IF Receiver(recv).kind = "sparse"
                  THEN Sparse_new_union(Receiver(recv), Operand(recv))
                  ELSE Typed_new_union(Receiver(recv), Operand(recv)),
                  0)

PairNewIntersection ==
    \E recv \in {"a", "b"} :
        PairApply("new_intersection", recv,
                  IF Receiver(recv).kind = "sparse"
                  THEN Sparse_new_intersection(Receiver(recv), Operand(recv))
                  ELSE Typed_new_intersection(Receiver(recv), Operand(recv)),
                  0)

PairNewDifference ==
    \E recv \in {"a", "b"} :
        PairApply("new_difference", recv,
                  IF Receiver(recv).kind = "sparse"
                  THEN Sparse_new_difference(Receiver(recv), Operand(recv))
                  ELSE Typed_new_difference(Receiver(recv), Operand(recv)),
                  0)

PairNewChange ==
    \E recv \in {"a", "b"} :
        PairApply("new_change", recv,
                  IF Receiver(recv).kind = "sparse"
                  THEN Sparse_new_change(Receiver(recv), Operand(recv))
                  ELSE Typed_new_change(Receiver(recv), Operand(recv)),
                  0)

PairUnionSize ==
    \E recv \in {"a", "b"} :
        LET out == IF Receiver(recv).kind = "sparse"
                   THEN Sparse_union_size(Receiver(recv), Operand(recv))
                   ELSE Typed_union_size(Receiver(recv), Operand(recv))
        IN PairApply("union_size", recv, out, out.value)

PairIntersectionSize ==
    \E recv \in {"a", "b"} :
        LET out == IF Receiver(recv).kind = "sparse"
                   THEN Sparse_intersection_size(Receiver(recv), Operand(recv))
                   ELSE Typed_intersection_size(Receiver(recv), Operand(recv))
        IN PairApply("intersection_size", recv, out, out.value)

PairDifferenceSize ==
    \E recv \in {"a", "b"} :
        LET out == IF Receiver(recv).kind = "sparse"
                   THEN Sparse_difference_size(Receiver(recv), Operand(recv))
                   ELSE Typed_difference_size(Receiver(recv), Operand(recv))
        IN PairApply("difference_size", recv, out, out.value)

PairChangeSize ==
    \E recv \in {"a", "b"} :
        LET out == IF Receiver(recv).kind = "sparse"
                   THEN Sparse_change_size(Receiver(recv), Operand(recv))
                   ELSE Typed_change_size(Receiver(recv), Operand(recv))
        IN PairApply("change_size", recv, out, out.value)

NextPair ==
    \/ PairDifference2 \/ PairChange
    \/ PairNewUnion \/ PairNewIntersection \/ PairNewDifference \/ PairNewChange

SpecPair == InitPair /\ [][NextPair]_vars

PairEquals ==
    \E recv \in {"a", "b"} :
        LET out == equals(Receiver(recv), Operand(recv))
        IN PairApply("equals", recv, out, out.value)

PairIntersects ==
    \E recv \in {"a", "b"} :
        LET out == IF Receiver(recv).kind = "sparse"
                   THEN Sparse_intersects(Receiver(recv), Operand(recv))
                   ELSE Typed_intersects(Receiver(recv), Operand(recv))
        IN PairApply("intersects", recv, out, out.value)

\* only the calls that answer a question about the pair and build nothing
NextAsk ==
    \/ PairUnionSize \/ PairIntersectionSize \/ PairDifferenceSize \/ PairChangeSize
    \/ PairEquals \/ PairIntersects

SpecAsk == InitPair /\ [][NextAsk]_vars

-----------------------------------------------------------------------------
(* forEach and the default iterator on a, one callback or one next() at a   *)
(* time.  The callback, or the body of the for...of loop, either removes    *)
(* the value it was just given or leaves the bitset alone.                  *)
(*                                                                         *)
(* Both capture the buffer when they start (const array = this.data).  A    *)
(* remove() whose resize() allocates gives the bitset another buffer: the   *)
(* captured one then keeps the content it had (live = FALSE).               *)

\* the traversal as it starts: mode is the branch taken on this.arraySize === -1;
\* k and w are the word cursor (let w = words[k]), i the slot cursor, arraySize
\* the copy the iterator takes; seen lists the values handed out so far
Begin(kind, obj) ==
    [kind |-> kind, stage |-> "running",
     mode |-> IF IsArray(obj) THEN "array" ELSE "words",
     array |-> IF IsArray(obj) THEN obj.data ELSE <<>>, live |-> TRUE,
     arraySize |-> IF IsArray(obj) THEN obj.arraySize ELSE 0,
     i |-> 0, k |-> 0, w |-> IF IsArray(obj) THEN {} ELSE RdW(wordsOf(obj), 0),
     seen |-> <<>>, start |-> Members(obj)]

\* the content of the captured buffer
Captured(t, obj) == IF t.live THEN obj.data ELSE t.array

\* the words of index k and beyond that the cursor has still to pass
Ahead(t, obj) == {j \in DOMAIN wordsOf(obj) : j > t.k /\ wordsOf(obj)[j] # {}}

\* the loop condition: i < this.arraySize in forEach, i < arraySize (the copy) in
\* the iterator, and for the word cursor a set bit left in w or in a later word
HasNext(t, obj) ==
    IF t.mode = "array"
    THEN t.i < (IF t.kind = "forEach" THEN obj.arraySize ELSE t.arraySize)
    ELSE t.w # {} \/ Ahead(t, obj) # {}

\* one turn in Array mode: const v = array[i]; the value is handed out and the
\* receiver perhaps removes it.  forEach then tests v !== array[i] and stays on
\* the slot when it changed; the iterator tests it before the value is handed
\* out, when nothing can have changed, and always moves on
ArrayTurn(t, obj, doRemove) ==
    LET v == Rd(Captured(t, obj), t.i)
        obj2 == IF doRemove THEN Sparse_remove(obj, v) ELSE obj
        moved == doRemove /\ Sparse_resize(obj, v, 0) # obj
        t2 == [t EXCEPT !.live = t.live /\ ~moved,
                        !.array = IF t.live /\ moved THEN obj.data ELSE t.array,
                        !.seen = Append(t.seen, v)]
        stay == t.kind = "forEach" /\ v # Rd(Captured(t2, obj2), t.i)
    IN [obj |-> obj2, it |-> [t2 EXCEPT !.i = IF stay THEN t.i ELSE t.i + 1]]

\* one turn of the word cursor: t = w & -w; value = (k << 5) + hammingWeight(t - 1);
\* w ^= t, after k++ and w = words[k] past the words that are 0
WordsTurn(t, obj, doRemove) ==
    LET k == IF t.w # {} THEN t.k
             ELSE CHOOSE j \in Ahead(t, obj) : \A j2 \in Ahead(t, obj) : j <= j2
        w == IF t.w # {} THEN t.w ELSE wordsOf(obj)[k]
        bit == CHOOSE x \in w : \A y \in w : x <= y
        value == k * WordBits + bit
    IN [obj |-> IF doRemove THEN remove(obj, value) ELSE obj,
        it |-> [t EXCEPT !.k = k, !.w = w \ {bit}, !.seen = Append(t.seen, value)]]

Turn(t, obj, doRemove) ==
    IF t.mode = "array" THEN ArrayTurn(t, obj, doRemove) ELSE WordsTurn(t, obj, doRemove)

WalkLists == {<<>>, <<7>>, <<5, 1, 3, 2>>, <<100, 1>>, <<1, 2, 3, 4, 5, 6, 7, 8>>}

\* each list as an adaptive bitset in Array mode, in Bitset mode, trimmed, and
\* as a dense bitset
WalkSeeds ==
    UNION {{SparseTypedFastBitSet(iterable),
            Sparse_words(SparseTypedFastBitSet(iterable)),
            Sparse_trim(SparseTypedFastBitSet(iterable)),
            TypedFastBitSet(iterable)} : iterable \in WalkLists}

InitWalk ==
    /\ a \in WalkSeeds
    /\ b = NewTyped
    /\ r = NewTyped
    /\ pre = [a |-> a, b |-> b]
    /\ last = Called("new", 0, 0, 0)
    /\ steps = 0
    /\ shared = FALSE
    /\ it = NoTraversal

WalkStart(kind) ==
    /\ it = NoTraversal
    /\ it' = Begin(kind, a)
    /\ pre' = [a |-> a, b |-> b]
    /\ last' = Called(kind, 0, 0, 0)
    /\ UNCHANGED <<a, b, r, steps, shared>>

WalkTurn(kind) ==
    /\ it.kind = kind
    /\ it.stage = "running"
    /\ HasNext(it, a)
    /\ \E doRemove \in BOOLEAN :
           /\ a' = Turn(it, a, doRemove).obj
           /\ it' = Turn(it, a, doRemove).it
    /\ UNCHANGED <<b, r, last, pre, steps, shared>>

WalkEnd(kind) ==
    /\ it.kind = kind
    /\ it.stage = "running"
    /\ ~HasNext(it, a)
    /\ it' = [it EXCEPT !.stage = "done"]
    /\ UNCHANGED <<a, b, r, last, pre, steps, shared>>

ForEachStart == WalkStart("forEach")
ForEachCall == WalkTurn("forEach")
ForEachReturn == WalkEnd("forEach")

IteratorStart == WalkStart("iterator")
IteratorNext == WalkTurn("iterator")
IteratorDone == WalkEnd("iterator")

NextWalk ==
    \/ ForEachStart \/ ForEachCall \/ ForEachReturn
    \/ IteratorStart \/ IteratorNext \/ IteratorDone

SpecWalk == InitWalk /\ [][NextWalk]_vars

-----------------------------------------------------------------------------
(* Every call of the BitSet interface on a pair of bitsets, either one the   *)
(* receiver: the single-operand calls, the in-place two-operand calls, the   *)
(* new_ forms and the calls that only answer                                 *)

\* a single-operand call on Receiver(recv) that leaves it as obj
ModeCall(op, recv, obj, threw) ==
    PairApply(op, recv, Outcome(obj, Operand(recv), "none", threw), 0)

\* a resize that also repacks the buffer into the smaller representation
resizeRepacking(o, index) ==
    IF o.kind = "dense" THEN Typed_resize(o, index)
    ELSE IF Sparse_resizeThrows(o, index) THEN o
    ELSE Sparse_trim(Sparse_resize(o, index, 0))

\* resize(index), the call failing where the copy into the new words throws
resize(o, index) ==
    IF o.kind = "dense" THEN Typed_resize(o, index)
    ELSE IF Sparse_resizeThrows(o, index) THEN o
    ELSE Sparse_resize(o, index, 0)

ModeAdd ==
    \E recv \in {"a", "b"}, index \in BinIndices :
        ModeCall("add", recv, add(Receiver(recv), index), FALSE)
ModeCheckedAdd ==
    \E recv \in {"a", "b"}, index \in BinIndices :
        ModeCall("checkedAdd", recv, checkedAdd(Receiver(recv), index).obj, FALSE)
ModeFlip ==
    \E recv \in {"a", "b"}, index \in BinIndices :
        ModeCall("flip", recv, flip(Receiver(recv), index), FALSE)
ModeRemove ==
    \E recv \in {"a", "b"}, index \in BinIndices :
        ModeCall("remove", recv, remove(Receiver(recv), index), FALSE)
ModeAddRange ==
    \E recv \in {"a", "b"} : ModeCall("addRange", recv, addRange(Receiver(recv), 1, 4), FALSE)
ModeRemoveRange ==
    \E recv \in {"a", "b"} :
        ModeCall("removeRange", recv, removeRange(Receiver(recv), 1, 4), FALSE)
ModeResize ==
    \E recv \in {"a", "b"}, index \in BinIndices \cup {300} :
        ModeCall("resize", recv, resize(Receiver(recv), index),
                 Receiver(recv).kind = "sparse" /\ Sparse_resizeThrows(Receiver(recv), index))
ModeClear == \E recv \in {"a", "b"} : ModeCall("clear", recv, clear(Receiver(recv)), FALSE)
ModeTrim == \E recv \in {"a", "b"} : ModeCall("trim", recv, trim(Receiver(recv)), FALSE)
ModeClone ==
    \E recv \in {"a", "b"} :
        PairApply("clone", recv,
                  Built(Receiver(recv), Operand(recv), clone(Receiver(recv)), FALSE), 0)

PairUnion ==
    \E recv \in {"a", "b"} :
        PairApply("union", recv,
                  IF Receiver(recv).kind = "sparse"
                  THEN Sparse_union(Receiver(recv), Operand(recv))
                  ELSE Typed_union(Receiver(recv), Operand(recv)),
                  0)

PairIntersection ==
    \E recv \in {"a", "b"} :
        PairApply("intersection", recv,
                  IF Receiver(recv).kind = "sparse"
                  THEN Sparse_intersection(Receiver(recv), Operand(recv))
                  ELSE Typed_intersection(Receiver(recv), Operand(recv)),
                  0)

PairDifference ==
    \E recv \in {"a", "b"} :
        PairApply("difference", recv,
                  IF Receiver(recv).kind = "sparse"
                  THEN Sparse_difference(Receiver(recv), Operand(recv))
                  ELSE Typed_difference(Receiver(recv), Operand(recv)),
                  0)

NextMode ==
    \/ ModeAdd \/ ModeCheckedAdd \/ ModeFlip \/ ModeRemove
    \/ ModeAddRange \/ ModeRemoveRange \/ ModeResize
    \/ ModeClear \/ ModeTrim \/ ModeClone
    \/ PairUnion \/ PairIntersection \/ PairDifference
    \/ PairDifference2 \/ PairChange
    \/ PairNewUnion \/ PairNewIntersection \/ PairNewDifference \/ PairNewChange
    \/ PairUnionSize \/ PairIntersectionSize \/ PairDifferenceSize \/ PairChangeSize
    \/ PairEquals \/ PairIntersects

SpecMode == InitPair /\ [][NextMode]_vars

-----------------------------------------------------------------------------
(* b = a.clone(), then single-operand calls on the original a or on the     *)
(* clone b.  Two objects that hold the same typed array see each other's    *)
(* writes until one of them is given another array.                         *)

MaxCloneOps == 3

CloneIndices == {0, 5, 40}

\* the typed array a bitset holds, and the bitset holding another one
BufferOf(o) == IF o.kind = "sparse" THEN o.data ELSE o.words
WithBuffer(o, arr) == IF o.kind = "sparse" THEN [o EXCEPT !.data = arr] ELSE [o EXCEPT !.words = arr]

\* the call wrote into the typed array the receiver held: resize() and
\* toBitset() did not allocate (every allocation of theirs changes the length
\* or the mode)
KeptBuffer(before, after) ==
    /\ IsArray(before) = IsArray(after)
    /\ Length(BufferOf(before)) = Length(BufferOf(after))

InitClone ==
    /\ a \in PairOperands
    /\ b = a
    /\ r = NewTyped
    /\ pre = [a |-> a, b |-> b]
    /\ last = Called("new", 0, 0, 0)
    /\ steps = 0
    /\ shared = FALSE
    /\ it = NoTraversal

CloneCall ==
    /\ last.op = "new"
    /\ b' = clone(a)
    /\ shared' = (Uint32ArrayOf(BufferOf(a)).storage = "same")
    /\ pre' = [a |-> a, b |-> b]
    /\ last' = [Called("clone", 0, 0, 0) EXCEPT !.returned = "answer"]
    /\ steps' = steps + 1
    /\ UNCHANGED <<a, r, it>>

\* a call on the original (recv = "a") or on the clone (recv = "b") that leaves
\* the receiver as out; allocates says the method always assigns a new array
Mutate(op, index, recv, out, allocates) ==
    LET before == IF recv = "a" THEN a ELSE b
        holder == IF recv = "a" THEN b ELSE a
        kept == shared /\ ~allocates /\ KeptBuffer(before, out)
        seen == IF kept THEN WithBuffer(holder, BufferOf(out)) ELSE holder
    IN /\ last.op # "new"
       /\ steps < MaxCloneOps
       /\ a' = (IF recv = "a" THEN out ELSE seen)
       /\ b' = (IF recv = "a" THEN seen ELSE out)
       /\ shared' = kept
       /\ pre' = [a |-> a, b |-> b]
       /\ last' = [Called(op, index, 0, 0) EXCEPT !.recv = recv]
       /\ steps' = steps + 1
       /\ UNCHANGED <<r, it>>

Target(recv) == IF recv = "a" THEN a ELSE b

CloneAdd ==
    \E recv \in {"a", "b"}, index \in CloneIndices :
        Mutate("add", index, recv, add(Target(recv), index), FALSE)
CloneRemove ==
    \E recv \in {"a", "b"}, index \in CloneIndices :
        Mutate("remove", index, recv, remove(Target(recv), index), FALSE)
CloneFlip ==
    \E recv \in {"a", "b"}, index \in CloneIndices :
        Mutate("flip", index, recv, flip(Target(recv), index), FALSE)
CloneAddRange ==
    \E recv \in {"a", "b"} : Mutate("addRange", 1, recv, addRange(Target(recv), 1, 4), FALSE)
CloneRemoveRange ==
    \E recv \in {"a", "b"} :
        Mutate("removeRange", 1, recv, removeRange(Target(recv), 1, 4), FALSE)
CloneClear == \E recv \in {"a", "b"} : Mutate("clear", 0, recv, clear(Target(recv)), TRUE)
CloneTrim == \E recv \in {"a", "b"} : Mutate("trim", 0, recv, trim(Target(recv)), TRUE)

NextClone ==
    \/ CloneCall
    \/ CloneAdd
    \/ CloneRemove
    \/ CloneFlip
    \/ CloneAddRange
    \/ CloneRemoveRange
    \/ CloneClear
    \/ CloneTrim

SpecClone == InitClone /\ [][NextClone]_vars

-----------------------------------------------------------------------------
(* Capacity: resize(index), resize(index, capacity) and resizeTo(size) on   *)
(* one bitset a of either dense class or of the adaptive class, between     *)
(* add, remove, trim and a read of words                                    *)

MaxCapacityOps == 2

CapacityIndices == {0, 40, 255, 256, 511, 8192}

CapacitySizes == {0, 1, 256, 257, 1000}

\* the capacity argument: 0 from add, checkedAdd, flip and remove,
\* end - start - 1 from addRange
Capacities == {0, 3, 299}

\* resizeTo(size) of the adaptive class does nothing
Sparse_resizeTo(s, nbits) == s

\* the Array-mode bitset after add(1), ..., add(n - 1), add(biggest), in a
\* buffer of len slots
Filled(len, n, biggest) ==
    [kind |-> "sparse", arraySize |-> n,
     data |-> [k \in 0..(len - 1) |-> IF k = 0 THEN biggest ELSE IF k < n THEN k ELSE 0]]

RECURSIVE CountedTypedFastBitSet(_, _)
CountedTypedFastBitSet(iterable, i) ==
    IF i = 0 THEN NewCounted ELSE Counted_add(CountedTypedFastBitSet(iterable, i - 1), iterable[i])

CapacitySeeds ==
    <<NewTyped, TypedFastBitSet(<<1, 2, 4, 96>>), Typed_trim(TypedFastBitSet(<<1, 2, 4, 96>>)),
     NewCounted, CountedTypedFastBitSet(<<1, 2, 4, 96>>, 4),
     Counted_trim(CountedTypedFastBitSet(<<1, 2, 4, 96>>, 4)),
     NewSparse, SparseTypedFastBitSet(<<1, 2, 4, 96>>),
     Sparse_words(SparseTypedFastBitSet(<<1, 2, 4, 96>>)),
     Sparse_trim(Sparse_words(SparseTypedFastBitSet(<<1, 2, 4, 300>>))),
     Filled(8, 8, 8), Filled(128, 128, 128), Filled(128, 128, 300),
     Filled(256, 256, 256), Filled(256, 256, 20000), Filled(256, 200, 20000)>>

InitCapacity ==
    /\ \E seed \in DOMAIN CapacitySeeds : a = CapacitySeeds[seed]
    /\ b = NewTyped
    /\ r = NewTyped
    /\ pre = [a |-> a, b |-> b]
    /\ last = Called("new", 0, 0, 0)
    /\ steps = 0
    /\ shared = FALSE
    /\ it = NoTraversal

CapacityStep(op, x, y, obj, threw) ==
    /\ steps < MaxCapacityOps
    /\ a' = obj
    /\ pre' = [a |-> a, b |-> b]
    /\ last' = [Called(op, x, y, 0) EXCEPT !.threw = threw]
    /\ steps' = steps + 1
    /\ UNCHANGED <<b, r, shared, it>>

Resize ==
    \E index \in CapacityIndices :
        CapacityStep("resize", index, 0,
                     IF a.kind = "counted" THEN Counted_resize(a, index) ELSE resize(a, index),
                     a.kind = "sparse" /\ Sparse_resizeThrows(a, index))

ResizeWithCapacity ==
    \E index \in CapacityIndices, capacity \in Capacities \ {0} :
        /\ IsArray(a)
        /\ CapacityStep("resize", index, capacity, Sparse_resize(a, index, capacity), FALSE)

ResizeTo ==
    \E nbits \in CapacitySizes :
        /\ a.kind # "dense"
        /\ CapacityStep("resizeTo", nbits, 0,
                        IF a.kind = "counted" THEN Counted_resizeTo(a, nbits)
                        ELSE Sparse_resizeTo(a, nbits),
                        FALSE)

CapacityAdd ==
    \E index \in {40, 300} :
        CapacityStep("add", index, 0,
                     IF a.kind = "counted" THEN Counted_add(a, index) ELSE add(a, index), FALSE)

CapacityRemove ==
    CapacityStep("remove", 96, 0,
                 IF a.kind = "counted" THEN Counted_remove(a, 96) ELSE remove(a, 96), FALSE)

CapacityTrim ==
    CapacityStep("trim", 0, 0, IF a.kind = "counted" THEN Counted_trim(a) ELSE trim(a), FALSE)

CapacityWords ==
    /\ a.kind = "sparse"
    /\ CapacityStep("words", 0, 0, getWords(a), FALSE)

NextCapacity ==
    \/ Resize \/ ResizeWithCapacity \/ ResizeTo
    \/ CapacityAdd \/ CapacityRemove \/ CapacityTrim \/ CapacityWords

SpecCapacity == InitCapacity /\ [][NextCapacity]_vars

-----------------------------------------------------------------------------
(* hasAnyInRange on a dense bitset a, between add and trim *)

MaxRangeOps == 2

RangeLists == {<<>>, <<40>>, <<5, 70>>, <<100, 199>>, <<255>>, <<31, 32>>}

RangeEnds == {0, 5, 31, 32, 33, 64, 96, 128, 200, 255, 256, 300}

InitRange ==
    /\ a \in {TypedFastBitSet(iterable) : iterable \in RangeLists}
    /\ b = NewTyped
    /\ r = NewTyped
    /\ pre = [a |-> a, b |-> b]
    /\ last = Called("new", 0, 0, 0)
    /\ steps = 0
    /\ shared = FALSE
    /\ it = NoTraversal

RangeStep(op, x, y, obj, ret) ==
    /\ steps < MaxRangeOps
    /\ a' = obj
    /\ pre' = [a |-> a, b |-> b]
    /\ last' = Called(op, x, y, ret)
    /\ steps' = steps + 1
    /\ UNCHANGED <<b, r, shared, it>>

HasAnyInRange ==
    \E start \in RangeEnds, end \in RangeEnds :
        RangeStep("hasAnyInRange", start, end, a, Typed_hasAnyInRange(a, start, end))

RangeAdd == \E index \in {64, 300} : RangeStep("add", index, 0, Typed_add(a, index), FALSE)

RangeTrim == RangeStep("trim", 0, 0, Typed_trim(a), FALSE)

NextRange == HasAnyInRange \/ RangeAdd \/ RangeTrim

SpecRange == InitRange /\ [][NextRange]_vars

-----------------------------------------------------------------------------
(* A.union(A), A.intersection(A), A.difference(A) and A.change(A) on one     *)
(* bitset a, between add, remove, trim and a read of words.  last.ret says   *)
(* whether the call came to an end.                                          *)

MaxSelfOps == 2

SelfSeeds ==
    <<Filled(8, 8, 8), Filled(8, 3, 5), Filled(16, 16, 300), Filled(256, 256, 256),
      Sparse_trim(SparseTypedFastBitSet(<<100, 1>>))>>

InitSelf ==
    /\ \/ a \in PairOperands
       \/ \E seed \in DOMAIN SelfSeeds : a = SelfSeeds[seed]
    /\ b = NewTyped
    /\ r = NewTyped
    /\ pre = [a |-> a, b |-> b]
    /\ last = Called("new", 0, 0, 0)
    /\ steps = 0
    /\ shared = FALSE
    /\ it = NoTraversal

SelfStep(op, x, obj, ends) ==
    /\ steps < MaxSelfOps
    /\ a' = obj
    /\ pre' = [a |-> a, b |-> b]
    /\ last' = Called(op, x, 0, ends)
    /\ steps' = steps + 1
    /\ UNCHANGED <<b, r, shared, it>>

SelfUnion ==
    IF a.kind = "dense" THEN SelfStep("union", 0, Typed_union(a, a).this, TRUE)
    ELSE SelfStep("union", 0, Sparse_unionSelf(a).obj, Sparse_unionSelf(a).ends)

\* the loops over this.arraySize slots that the model follows to their end
Followed(o) == IsArray(o) => o.arraySize <= LoopLimit

SelfIntersection ==
    /\ Followed(a)
    /\ SelfStep("intersection", 0,
                IF a.kind = "dense" THEN Typed_intersection(a, a).this
                ELSE Sparse_intersectionSelf(a),
                TRUE)

SelfDifference ==
    /\ Followed(a)
    /\ SelfStep("difference", 0,
                IF a.kind = "dense" THEN Typed_difference(a, a).this
                ELSE Sparse_differenceSelf(a),
                TRUE)

SelfChange ==
    IF a.kind = "dense" THEN SelfStep("change", 0, Typed_change(a, a).this, TRUE)
    ELSE SelfStep("change", 0, Sparse_changeSelf(a).obj, Sparse_changeSelf(a).ends)

SelfAdd == \E index \in BinIndices : SelfStep("add", index, add(a, index), TRUE)

SelfRemove == \E index \in {1, 5} : SelfStep("remove", index, remove(a, index), TRUE)

SelfTrim == SelfStep("trim", 0, trim(a), TRUE)

SelfWords == SelfStep("words", 0, getWords(a), TRUE)

\* a.array(): last.ret is the list returned
SelfArray == SelfStep("array", 0, a, BitSet_array(a))

NextSelf ==
    \/ SelfUnion \/ SelfIntersection \/ SelfDifference \/ SelfChange
    \/ SelfAdd \/ SelfRemove \/ SelfTrim \/ SelfWords \/ SelfArray

SpecSelf == InitSelf /\ [][NextSelf]_vars

-----------------------------------------------------------------------------
(* Contracts of the single-operand operations, stated on the last call:     *)
(* pre.a is the receiver before the call and a the receiver after it.       *)

Span(start, end) == {k \in start..(end - 1) : TRUE}

OthersKept(index) == Members(a) \ {index} = Members(pre.a) \ {index}

AddContract ==
    last.op = "add" =>
        /\ has(a, last.x)
        /\ size(a) = size(pre.a) + (IF has(pre.a, last.x) THEN 0 ELSE 1)
        /\ OthersKept(last.x)

RemoveContract ==
    last.op = "remove" =>
        /\ ~has(a, last.x)
        /\ size(a) = size(pre.a) - (IF has(pre.a, last.x) THEN 1 ELSE 0)
        /\ OthersKept(last.x)

\* C3: after add(i) the value i is a member, size() has grown by one exactly when
\* i was absent, and no other value's membership changed; after remove(i) the
\* value i is not a member, size() has shrunk by one exactly when i was present,
\* and no other value's membership changed
C3_AddRemove == AddContract /\ RemoveContract

C3_Witness ==
    /\ last.op = "remove"
    /\ pre.a.kind = "sparse"
    /\ pre.a.arraySize > 1
    /\ Rd(pre.a.data, 0) = last.x
    /\ size(a) = size(pre.a) - 1

\* C4: flip(i) removes i when it was a member and adds it when it was not, leaves
\* every other value's membership as it was, and moves size() by exactly one in
\* the matching direction
C4_Flip ==
    last.op = "flip" =>
        /\ has(a, last.x) = ~has(pre.a, last.x)
        /\ OthersKept(last.x)
        /\ size(a) = size(pre.a) + (IF has(pre.a, last.x) THEN -1 ELSE 1)

\* C5: checkedAdd(i) returns 1 and leaves i a member when i was absent, returns 0
\* and leaves the set as it was when i was present, and never changes another
\* value's membership, also when the call has to grow the buffer
C5_CheckedAdd ==
    last.op = "checkedAdd" =>
        /\ last.ret = (IF has(pre.a, last.x) THEN 0 ELSE 1)
        /\ has(a, last.x)
        /\ OthersKept(last.x)

\* C6: addRange(start, end) leaves exactly the old members and the integers of
\* [start, end) in the set, with size() the number of distinct members, and
\* changes nothing when start >= end
C6_AddRange ==
    last.op = "addRange" =>
        IF last.x >= last.y THEN a = pre.a
        ELSE /\ Members(a) = Members(pre.a) \cup Span(last.x, last.y)
             /\ size(a) = Cardinality(Members(a))

\* C7: removeRange(start, end) leaves exactly the old members outside
\* [start, end) in the set, wherever end lies relative to the last bit the
\* buffer holds, and changes nothing when start >= end
C7_RemoveRange ==
    last.op = "removeRange" =>
        IF last.x >= last.y THEN Members(a) = Members(pre.a)
        ELSE Members(a) = Members(pre.a) \ Span(last.x, last.y)

-----------------------------------------------------------------------------
(* Contracts of the two-operand operations, stated on the last call *)

This == Receiver(last.recv)
Other == Operand(last.recv)
PreThis == IF last.recv = "a" THEN pre.a ELSE pre.b
PreOther == IF last.recv = "a" THEN pre.b ELSE pre.a

\* slot 0 of an Array-mode buffer is a member and no member is larger
MaxFirst(o) ==
    (IsArray(o) /\ Members(o) # {}) =>
        /\ Rd(o.data, 0) \in Members(o)
        /\ \A v \in Members(o) : v <= Rd(o.data, 0)

\* C2: whenever an adaptive bitset in Array mode holds at least one element,
\* slot 0 of its buffer holds the largest of its elements; this is so for the
\* receiver, for the operand and for the bitset a new_ operation or clone built
C2_MaxFirst == MaxFirst(a) /\ MaxFirst(b) /\ MaxFirst(r)

C2_Witness ==
    /\ last.op = "difference"
    /\ ~last.threw
    /\ IsArray(PreThis)
    /\ IsArray(This)
    /\ size(This) >= 2
    /\ This.arraySize <= Length(This.data)
    /\ Rd(PreThis.data, 0) \notin Members(This)

\* C8: A.union(B) returns A, leaves A holding exactly the values that were in A
\* or in B, and leaves B's membership as it was
C8_Union ==
    last.op = "union" =>
        /\ ~last.threw
        /\ last.returned = "this"
        /\ Members(This) = Members(PreThis) \cup Members(PreOther)
        /\ Members(Other) = Members(PreOther)

\* C9: A.intersection(B) returns A, leaves A holding exactly the values that
\* were in both A and B, and leaves B's membership as it was
C9_Intersection ==
    last.op = "intersection" =>
        /\ ~last.threw
        /\ last.returned = "this"
        /\ Members(This) = Members(PreThis) \cap Members(PreOther)
        /\ Members(Other) = Members(PreOther)

C9_Witness ==
    /\ last.op = "intersection"
    /\ ~IsArray(PreThis)
    /\ ~IsArray(PreOther)
    /\ Length(wordsOf(PreThis)) > Length(wordsOf(PreOther))
    /\ \E v \in Members(PreThis) : v >= WordBits * Length(wordsOf(PreOther))
    /\ Members(This) # {}

\* C10: A.difference(B) returns A, leaves A holding exactly the values that were
\* in A and not in B, and leaves B's membership as it was
C10_Difference ==
    last.op = "difference" =>
        /\ ~last.threw
        /\ last.returned = "this"
        /\ Members(This) = Members(PreThis) \ Members(PreOther)
        /\ Members(Other) = Members(PreOther)

C12_Change ==
    last.op = "change" =>
        /\ ~last.threw
        /\ last.returned = "this"
        /\ Members(This) = Xor(Members(PreThis), Members(PreOther))
        /\ Members(Other) = Members(PreOther)

\* what the four operations that build a bitset should put in it
Expected(op) ==
    IF op = "new_union" THEN Members(PreThis) \cup Members(PreOther)
    ELSE IF op = "new_intersection" THEN Members(PreThis) \cap Members(PreOther)
    ELSE IF op = "new_difference" THEN Members(PreThis) \ Members(PreOther)
    ELSE Xor(Members(PreThis), Members(PreOther))

NewOps == {"new_union", "new_intersection", "new_difference", "new_change"}

\* C13: new_union, new_intersection, new_difference and new_change return a
\* bitset holding the union, the intersection, this minus other and the
\* symmetric difference of the operands, and leave the membership of both
\* operands as it was
C13_NewOperations ==
    last.op \in NewOps =>
        /\ ~last.threw
        /\ last.returned = "answer"
        /\ Members(r) = Expected(last.op)
        /\ Members(This) = Members(PreThis)
        /\ Members(Other) = Members(PreOther)

C17_Trim ==
    last.op = "trim" =>
        /\ Members(a) = Members(pre.a)
        /\ size(a) = size(pre.a)
        /\ equals(a, clone(pre.a)).value
        /\ equals(clone(pre.a), a).value

\* C16: clone() returns a bitset with the membership and the size of the
\* original that shares no storage with it: whatever is then called on the
\* clone leaves the membership of the original as it was, and whatever is
\* called on the original leaves the membership of the clone as it was
C16_Clone ==
    /\ last.op = "clone" =>
           /\ Members(b) = Members(a)
           /\ size(b) = size(a)
           /\ equals(a, b).value
           /\ equals(b, a).value
           /\ a = pre.a
    /\ last.op \notin {"new", "clone"} =>
           /\ last.recv = "b" => Members(a) = Members(pre.a) /\ size(a) = size(pre.a)
           /\ last.recv = "a" => Members(b) = Members(pre.b) /\ size(b) = size(pre.b)
    /\ ~shared

\* an element was added to the clone in place, in the buffer clone() gave it,
\* after the original had been changed as well
C16_Witness ==
    /\ last.op = "add"
    /\ last.recv = "b"
    /\ KeptBuffer(pre.b, b)
    /\ Members(b) # Members(pre.b)
    /\ Members(a) # Members(b)
    /\ Cardinality(Members(a)) >= 2
    /\ steps = 3

\* the adaptive bitset o is in Bitset mode
InBitset(o) == o.kind = "sparse" /\ o.arraySize = -1

\* the call just made is one that may put the bitset on this side back into
\* Array mode: trim() or clear() on it, intersection() on it with an Array-mode
\* argument, difference2() of an Array-mode receiver with it as the argument
MayRevert(side, other, otherBefore) ==
    \/ last'.op \in {"trim", "clear"} /\ last'.recv = side
    \/ last'.op = "intersection" /\ last'.recv = side /\ IsArray(otherBefore)
    \/ last'.op = "difference2" /\ last'.recv = other /\ IsArray(otherBefore)

\* C20 as stated: an adaptive bitset in Bitset mode is in Array mode after a call
\* only if the call is trim() on it
C20_OnlyTrim ==
    [][/\ InBitset(a) /\ IsArray(a') => last'.op = "trim" /\ last'.recv = "a"
       /\ InBitset(b) /\ IsArray(b') => last'.op = "trim" /\ last'.recv = "b"]_vars

\* C20, amended: an adaptive bitset in Bitset mode is in Array mode after a call
\* only if the call is trim() or clear() on it, intersection() on it with an
\* Array-mode argument, or difference2() of an Array-mode receiver into it
C20_BitsetMode ==
    [][/\ InBitset(a) /\ IsArray(a') => MayRevert("a", "b", b)
       /\ InBitset(b) /\ IsArray(b') => MayRevert("b", "a", a)]_vars

\* a bitset in Bitset mode was intersected with an Array-mode bitset and is in
\* Array mode with what they had in common
C20_Witness ==
    /\ last.op = "intersection"
    /\ last.recv = "a"
    /\ InBitset(pre.a)
    /\ IsArray(pre.b)
    /\ IsArray(a)
    /\ Members(a) # {}
    /\ Members(a) # Members(pre.a)

-----------------------------------------------------------------------------
(* Traversal while the value just handed out is removed *)

\* no value handed out twice so far, and when the traversal is over every value
\* that was a member when it started has been handed out
ExactlyOnce ==
    /\ \A m, n \in DOMAIN it.seen : m # n => it.seen[m] # it.seen[n]
    /\ it.stage = "done" => {it.seen[m] : m \in DOMAIN it.seen} = it.start

\* C18: when the callback of forEach removes the element it was just given and
\* does nothing else, forEach calls it exactly once for each element that was
\* in the set when forEach started
C18_ForEach == it.kind = "forEach" => ExactlyOnce

\* C19: when the consumer of the default iterator removes the element just
\* yielded and does nothing else, the iterator yields exactly once each element
\* that was in the set when the iteration started
C19_Iterator == it.kind = "iterator" => ExactlyOnce

-----------------------------------------------------------------------------
(* Capacity contracts, stated on the last call of SpecCapacity *)

\* the members of a bitset of any of the three classes
MembersOf(o) ==
    IF o.kind = "counted" THEN {v \in BitValues(o.words) : Counted_has(o, v)} ELSE Members(o)

\* (index + 1) / 32 rounded up
WordsNeeded(index) == (index + WordBits) \div WordBits

\* the buffer grown is the old words followed by zero words
Extends(grown, old) ==
    /\ \A k \in DOMAIN old : k \in DOMAIN grown /\ grown[k] = old[k]
    /\ \A k \in DOMAIN grown \ DOMAIN old : grown[k] = {}

\* C21: resize(index) on a dense bitset or on an adaptive bitset in Bitset mode
\* leaves the buffer as it is when it holds more than index bits, and otherwise
\* gives a buffer of exactly 2 * ceil((index + 1) / 32) words, the old words
\* copied and the new ones zero; the membership is unchanged
C21_Resize ==
    (last.op = "resize" /\ last.y = 0 /\ ~IsArray(pre.a)) =>
        /\ IF Length(BufferOf(pre.a)) * WordBits > last.x
           THEN BufferOf(a) = BufferOf(pre.a)
           ELSE /\ Length(BufferOf(a)) = 2 * WordsNeeded(last.x)
                /\ Extends(BufferOf(a), BufferOf(pre.a))
        /\ MembersOf(a) = MembersOf(pre.a)

\* what the words property gives: the buffer of a dense bitset, the packed
\* words of an adaptive one
WordsView(o) == IF o.kind = "counted" THEN o.words ELSE wordsOf(o)

\* C22: after resizeTo(size) the words view holds at least ceil(size / 32)
\* words, exactly that many when it had to grow, and the membership is
\* unchanged, for the dense and for the adaptive bitset
C22_ResizeTo ==
    last.op = "resizeTo" =>
        LET needed == (last.x + WordBits - 1) \div WordBits
        IN /\ Length(WordsView(a)) >= needed
           /\ Length(WordsView(pre.a)) < needed => Length(WordsView(a)) = needed
           /\ MembersOf(a) = MembersOf(pre.a)

-----------------------------------------------------------------------------
(* Range query of the dense bitset *)

\* C23: hasAnyInRange(start, end) answers true exactly when some member k has
\* start <= k < end (false when start >= end), whatever number of words the
\* range spans and wherever end lies, and leaves the bitset as it was
C23_HasAnyInRange ==
    last.op = "hasAnyInRange" =>
        /\ last.ret = (\E k \in Members(pre.a) : last.x <= k /\ k < last.y)
        /\ a = pre.a

-----------------------------------------------------------------------------
(* The receiver as its own operand *)

\* C24: A.union(A) and A.intersection(A) come to an end and leave A with
\* exactly the membership it had, for a dense or adaptive A in any mode and
\* with any buffer fill
C24_Idempotent ==
    last.op \in {"union", "intersection"} =>
        /\ last.ret = TRUE
        /\ Members(a) = Members(pre.a)
        /\ size(a) = size(pre.a)

\* C30: A.change(A) and A.difference(A) come to an end and leave A empty, for a
\* dense or adaptive A in any mode
C30_SelfEmpties ==
    last.op \in {"change", "difference"} =>
        /\ last.ret = TRUE
        /\ Members(a) = {}
        /\ size(a) = 0

-----------------------------------------------------------------------------
(* Listing the members.                                                     *)

StrictlyAscending(list) ==
    \A i \in 1..(Len(list) - 1) : list[i] # Undef /\ list[i + 1] # Undef /\ list[i] < list[i + 1]

EachOnce(list, o) ==
    /\ Len(list) = Cardinality(Members(o))
    /\ {list[i] : i \in 1..Len(list)} = Members(o)

-----------------------------------------------------------------------------
(* Capacity requests in Array mode.                                         *)

\* the claim's word count c = ceil((max(M, index) + 1) / 32), M the value of
\* slot 0; a buffer without a slot 0 caches no maximum
WordsFor(o, index) ==
    LET M == Rd(o.data, 0)
        top == IF M = Undef \/ M < index THEN index ELSE M
    IN (top + WordBits) \div WordBits

StaysArray(slots) == IsArray(a) /\ Length(a.data) = slots /\ a.arraySize = pre.a.arraySize

\* C26: resize(index, extra) on an adaptive bitset in Array mode with n live
\* elements, buffer length L and cached maximum M keeps the buffer when
\* n + extra < L; else gives 2 * (L + extra) slots when L + extra < 256; else,
\* with c words needed for max(M, index), gives 2 * (L + extra) slots when
\* c > L + extra and 2 * (L + extra) < 1024, and otherwise converts to Bitset
\* mode with 2 * c words.  The membership is unchanged in every outcome.
C26_Outcomes ==
    (last.op = "resize" /\ IsArray(pre.a)) =>
        LET n == pre.a.arraySize
            L == Length(pre.a.data)
            extra == last.y
            c == WordsFor(pre.a, last.x)
        IN /\ Members(a) = Members(pre.a)
           /\ IF n + extra < L THEN a = pre.a
              ELSE IF L + extra < 256 THEN StaysArray(2 * (L + extra))
              ELSE IF c > L + extra /\ 2 * (L + extra) < 1024 THEN StaysArray(2 * (L + extra))
              ELSE a.arraySize = -1 /\ Length(a.data) = 2 * c

-----------------------------------------------------------------------------
(* The representation trim() chooses.                                       *)

\* w = floor(max / 32) + 1 words of a packed encoding, 0 for the empty set
PackedWords(o) ==
    IF Members(o) = {} THEN 0
    ELSE (CHOOSE v \in Members(o) : \A u \in Members(o) : u <= v) \div WordBits + 1

AsArray(o, slots) == o.arraySize # -1 /\ Length(o.data) = slots

AsBitset(o, count) == o.arraySize = -1 /\ Length(o.data) = count

\* C27: trim() on an adaptive bitset with n members and w words needed by a
\* packed encoding ends, from Bitset mode, in Array mode with n slots when
\* n < w and else in Bitset mode with w words; from Array mode, in Bitset mode
\* with w words when w <= n and else in Array mode with n slots.  The buffer
\* then has min(n, w) words and a second trim() changes nothing.
C27_Smaller ==
    (last.op = "trim" /\ pre.a.kind = "sparse") =>
        LET n == Cardinality(Members(pre.a))
            w == PackedWords(pre.a)
        IN /\ IF pre.a.arraySize = -1
              THEN IF n < w THEN AsArray(a, n) ELSE AsBitset(a, w)
              ELSE IF w <= n THEN AsBitset(a, w) ELSE AsArray(a, n)
           /\ Length(a.data) = Min2(n, w)
           /\ Sparse_trim(a) = a

\* C27, amended: as C27, except that from Array mode the bitset ends in Bitset
\* mode with w words only when it is not empty (size() > 0) and w <= n; an
\* empty Array-mode bitset stays in Array mode, with a buffer of no slots.
C27_SmallerUnlessEmpty ==
    (last.op = "trim" /\ pre.a.kind = "sparse") =>
        LET n == Cardinality(Members(pre.a))
            w == PackedWords(pre.a)
        IN /\ IF pre.a.arraySize = -1
              THEN IF n < w THEN AsArray(a, n) ELSE AsBitset(a, w)
              ELSE IF size(pre.a) > 0 /\ w <= n THEN AsBitset(a, w) ELSE AsArray(a, n)
           /\ Length(a.data) = Min2(n, w)
           /\ Sparse_trim(a) = a

C27_Witness ==
    /\ last.op = "trim"
    /\ pre.a.kind = "sparse"
    /\ pre.a.arraySize = -1
    /\ Cardinality(Members(pre.a)) >= 2
    /\ PackedWords(pre.a) > Cardinality(Members(pre.a))
    /\ a.arraySize = Cardinality(Members(pre.a))

-----------------------------------------------------------------------------
(* trim() and the calls that follow it.                                     *)

\* C28: after trim(), whatever add, checkedAdd, flip, remove and addRange
\* calls follow, the membership and size() after each call are those of the
\* bitset that was not trimmed; after add(x), has(x) is true and size()
\* counts x.
C28_Transparent ==
    /\ Members(a) = Members(b)
    /\ size(a) = size(b)
    /\ last.op = "add" => has(a, last.x) /\ size(a) = Cardinality(Members(pre.a) \cup {last.x})

-----------------------------------------------------------------------------
(* The Array-mode buffer.                                                   *)

LiveDistinct(o) ==
    \A i \in Live(o) : \A j \in Live(o) : i # j => Rd(o.data, i) # Rd(o.data, j)

ArrayKept(o) ==
    IsArray(o) =>
        /\ 0 <= o.arraySize
        /\ o.arraySize <= Length(o.data)
        /\ LiveDistinct(o)
        /\ size(o) = Cardinality(Members(o))
        /\ {Sparse_array(o)[i] : i \in 1..o.arraySize} = Members(o)

\* C29: an adaptive bitset in Array mode has a live count n with
\* 0 <= n <= buffer length and n pairwise distinct live slots, so size() is
\* the number of distinct members and array() lists no duplicate and nothing
\* but members, after any sequence of public operations.
C29_ArrayKept == ArrayKept(a) /\ ArrayKept(b) /\ ArrayKept(r)

====
